---- MODULE Spec2Model ----
(***************************************************************************)
(* VizFlow: the multi-format ingestion dispatcher (backend/processors),    *)
(* the five format processors, the error-log status endpoint, the query    *)
(* endpoints, the export operations, the upload route, the Python script   *)
(* runner, and the ErrorLogs view and the upload form of the frontend, as  *)
(* state machines.                                                         *)
(*                                                                         *)
(* JavaScript values are written as strings ("null", "num:0", "str:x") so  *)
(* that values of different JavaScript types stay comparable; a JavaScript *)
(* string that the code inspects character by character (a file name, a    *)
(* type label, a query parameter) is a sequence of one-character strings.  *)
(***************************************************************************)
EXTENDS Integers, Sequences, FiniteSets, TLC

VARIABLES
    pc,          \* processFile: "idle", "processing", "returned", "thrown"
    file,        \* the upload descriptor of the call
    content,     \* what the libraries and the script read from the file
    options,     \* the options of the call
    processor,   \* the processor getProcessor selected
    metadata,    \* the processing metadata the dispatcher built
    invoked,     \* the processor whose process method ran
    result,      \* the ProcessingResult the processor returned
    procError,   \* the message of the error the processor threw
    envelope,    \* the envelope processFile returned
    thrown,      \* the message of the error processFile threw
    errorLogs,   \* the ErrorLog collection: id -> document
    clock,       \* the wall clock read by new Date()
    errReq,      \* the last PATCH /api/errors/:id/status request
    errRes,      \* its response
    errPrev,     \* the stored document the request found
    pageReq,     \* the last GET /api/customers or /api/errors query
    pageRes,     \* its effective pagination
    exportReq,   \* the last call of an export operation
    exportRes,   \* what it returned or threw
    upPc,        \* POST /api/upload/file: "idle", "awaiting", "responded"
    upReq,       \* the file part and the fileType field of the request
    tempFile,    \* whether the file multer wrote to uploads/ exists
    dataStore,   \* the ProcessedData documents the request inserted
    logStore,    \* the ErrorLog documents the request inserted
    dbOutcome,   \* what the two insertMany calls of the request did
    upRes,       \* the response of the request
    child,       \* the spawned python process: "none", "running", "closed"
    chunks,      \* the stdout chunks in the order of their data events
    stdout,      \* the stdout buffer of executePythonScript
    errored,     \* whether the child emitted its error event
    exitCode,    \* the code of the close event
    promise,     \* the promise executePythonScript returned
    settles,     \* how often the promise changed its state
    collection,  \* the documents of the two collections, oldest first
    listing,     \* the GET /api/customers or /api/errors request in progress
    views,       \* the state of the ErrorLogs view of each client
    selectedFiles, \* UploadForm: the selected files
    fileCounter  \* UploadForm: how many files were dropped so far

dispatchVars == <<pc, file, content, options, processor, metadata, invoked, result,
                  procError, envelope, thrown>>
errorVars == <<errorLogs, clock, errReq, errRes, errPrev>>
pageVars == <<pageReq, pageRes>>
exportVars == <<exportReq, exportRes>>
uploadVars == <<upPc, upReq, tempFile, dataStore, logStore, dbOutcome, upRes>>
scriptVars == <<child, chunks, stdout, errored, exitCode, promise, settles>>
listVars == <<collection, listing>>
viewVars == <<views>>
formVars == <<selectedFiles, fileCounter>>
vars == <<dispatchVars, errorVars, pageVars, exportVars, uploadVars, scriptVars,
          listVars, viewVars, formVars>>

\* what an operation on one part of the state leaves alone
exceptDispatch == <<errorVars, pageVars, exportVars, uploadVars, scriptVars, listVars,
    viewVars, formVars>>
exceptErrors == <<dispatchVars, pageVars, exportVars, uploadVars, scriptVars, listVars,
    viewVars, formVars>>
exceptPage == <<dispatchVars, errorVars, exportVars, uploadVars, scriptVars, listVars,
    viewVars, formVars>>
exceptExport == <<dispatchVars, errorVars, pageVars, uploadVars, scriptVars, listVars,
    viewVars, formVars>>
exceptUpload == <<errorVars, pageVars, exportVars, scriptVars, listVars,
    viewVars, formVars>>
exceptScript == <<dispatchVars, errorVars, pageVars, exportVars, uploadVars, listVars,
    viewVars, formVars>>
exceptList == <<dispatchVars, errorVars, pageVars, exportVars, uploadVars, scriptVars,
    viewVars, formVars>>
exceptView == <<dispatchVars, pageVars, exportVars, uploadVars, scriptVars, listVars,
    formVars>>
exceptForm == <<dispatchVars, errorVars, pageVars, exportVars, uploadVars, scriptVars,
    listVars, viewVars>>

\* JavaScript null and undefined
NULL == "null"

\* null or undefined where the code expects a string it reads by character
NoString == <<NULL>>

(***************************************************************************)
(* JavaScript string operations on sequences of characters                 *)
(***************************************************************************)
UpperCase == <<"A","B","C","D","E","F","G","H","I","J","K","L","M",
               "N","O","P","Q","R","S","T","U","V","W","X","Y","Z">>
LowerCase == <<"a","b","c","d","e","f","g","h","i","j","k","l","m",
               "n","o","p","q","r","s","t","u","v","w","x","y","z">>

toLowerCaseChar(c) ==
    IF \E i \in DOMAIN UpperCase : UpperCase[i] = c
    THEN LowerCase[CHOOSE i \in DOMAIN UpperCase : UpperCase[i] = c]
    ELSE c

toLowerCase(s) == [i \in 1..Len(s) |-> toLowerCaseChar(s[i])]

toUpperCaseChar(c) ==
    IF \E i \in DOMAIN LowerCase : LowerCase[i] = c
    THEN UpperCase[CHOOSE i \in DOMAIN LowerCase : LowerCase[i] = c]
    ELSE c

toUpperCase(s) == [i \in 1..Len(s) |-> toUpperCaseChar(s[i])]

\* String.prototype.lastIndexOf: a 0-based index, -1 when c does not occur
lastIndexOf(s, c) ==
    IF \E i \in 1..Len(s) : s[i] = c
    THEN (CHOOSE i \in 1..Len(s) :
            s[i] = c /\ \A j \in (i+1)..Len(s) : s[j] # c) - 1
    ELSE -1

\* String.prototype.substring(start): a negative start counts as 0
substring(s, start) ==
    LET from == IF start < 0 THEN 0 ELSE IF start > Len(s) THEN Len(s) ELSE start
    IN  SubSeq(s, from + 1, Len(s))

Digits == <<"0","1","2","3","4","5","6","7","8","9">>
IsDigit(c) == \E i \in DOMAIN Digits : Digits[i] = c
DigitValue(c) == (CHOOSE i \in DOMAIN Digits : Digits[i] = c) - 1

\* Body(value), with the value computed once however often the body uses it
With(value, Body(_)) == CHOOSE r \in {Body(v) : v \in {value}} : TRUE

\* the string of a sequence of characters, for use as a property name or a value
RECURSIVE Str(_)
Str(chars) ==
    With(chars, LAMBDA s : IF s = <<>> THEN "" ELSE s[1] \o Str(Tail(s)))

\* the character classes of the regular expressions: \s, \w, [^\s], [^\s:],
\* [^:], [\w\s] and . (every character but a line break)
IsSpace(c) == c \in {" ", "\n", "\t"}
IsWord(c) ==
    \/ \E i \in DOMAIN LowerCase : LowerCase[i] = c
    \/ \E i \in DOMAIN UpperCase : UpperCase[i] = c
    \/ IsDigit(c)
    \/ c = "_"
InClass(c, class) ==
    CASE class = "space" -> IsSpace(c)
      [] class = "word" -> IsWord(c)
      [] class = "nonspace" -> ~IsSpace(c)
      [] class = "token" -> ~IsSpace(c) /\ c # ":"
      [] class = "nocolon" -> c # ":"
      [] class = "wordspace" -> IsWord(c) \/ IsSpace(c)
      [] class = "line" -> c # "\n"

\* where a greedy run of the class that starts at position p ends: the first
\* position from p on that holds no character of the class
RECURSIVE RunEnd(_, _, _)
RunEnd(s, p, class) ==
    With(p, LAMBDA q :
        IF q > Len(s) \/ ~InClass(s[q], class) THEN q ELSE RunEnd(s, q + 1, class))

\* String.prototype.trim
trim(str) ==
    With(str, LAMBDA s :
        IF \A i \in DOMAIN s : IsSpace(s[i]) THEN <<>>
        ELSE LET first == CHOOSE i \in DOMAIN s :
                             ~IsSpace(s[i]) /\ \A j \in 1..(i - 1) : IsSpace(s[j])
                 last == CHOOSE i \in DOMAIN s :
                            ~IsSpace(s[i]) /\ \A j \in (i + 1)..Len(s) : IsSpace(s[j])
             IN  SubSeq(s, first, last))

\* replace(/\s+/g, '_')
RECURSIVE ReplaceSpaces(_)
ReplaceSpaces(str) ==
    With(str, LAMBDA s :
        IF s = <<>> THEN <<>>
        ELSE IF IsSpace(s[1])
        THEN <<"_">> \o ReplaceSpaces(SubSeq(s, RunEnd(s, 1, "space"), Len(s)))
        ELSE <<s[1]>> \o ReplaceSpaces(Tail(s)))

\* split('\n')
RECURSIVE SplitLines(_)
SplitLines(str) ==
    With(str, LAMBDA s :
        With(RunEnd(s, 1, "line"), LAMBDA end :
            IF end > Len(s) THEN <<s>>
            ELSE <<SubSeq(s, 1, end - 1)>> \o SplitLines(SubSeq(s, end + 1, Len(s)))))

\* split(/\s{2,}/): the pieces between the runs of two or more blanks
RECURSIVE SplitColumns(_, _)
SplitColumns(str, piece) ==
    With(str, LAMBDA s :
        IF s = <<>> THEN <<piece>>
        ELSE IF IsSpace(s[1]) /\ RunEnd(s, 1, "space") > 2
        THEN <<piece>> \o SplitColumns(SubSeq(s, RunEnd(s, 1, "space"), Len(s)), <<>>)
        ELSE SplitColumns(Tail(s), Append(piece, s[1])))

NonEmpty(piece) == Len(piece) > 0

(***************************************************************************)
(* backend/processors/index.js: the registry                               *)
(***************************************************************************)
csvProcessor == "csvProcessor"
excelProcessor == "excelProcessor"
xmlProcessor == "xmlProcessor"
pdfProcessor == "pdfProcessor"
imageProcessor == "imageProcessor"

Processors == {csvProcessor, excelProcessor, xmlProcessor, pdfProcessor, imageProcessor}

SUPPORTED_FORMATS ==
    ("text/csv" :> csvProcessor) @@
    ("application/csv" :> csvProcessor) @@
    ("application/vnd.openxmlformats-officedocument.spreadsheetml.sheet" :> excelProcessor) @@
    ("application/vnd.ms-excel" :> excelProcessor) @@
    ("application/xml" :> xmlProcessor) @@
    ("text/xml" :> xmlProcessor) @@
    ("application/pdf" :> pdfProcessor) @@
    ("image/jpeg" :> imageProcessor) @@
    ("image/jpg" :> imageProcessor) @@
    ("image/png" :> imageProcessor) @@
    ("image/gif" :> imageProcessor) @@
    ("image/webp" :> imageProcessor) @@
    ("image/tiff" :> imageProcessor) @@
    ("image/bmp" :> imageProcessor)

EXTENSION_MAP ==
    (<<".","c","s","v">> :> "text/csv") @@
    (<<".","x","l","s","x">> :> "application/vnd.openxmlformats-officedocument.spreadsheetml.sheet") @@
    (<<".","x","l","s">> :> "application/vnd.ms-excel") @@
    (<<".","x","m","l">> :> "application/xml") @@
    (<<".","p","d","f">> :> "application/pdf") @@
    (<<".","j","p","g">> :> "image/jpeg") @@
    (<<".","j","p","e","g">> :> "image/jpeg") @@
    (<<".","p","n","g">> :> "image/png") @@
    (<<".","g","i","f">> :> "image/gif") @@
    (<<".","w","e","b","p">> :> "image/webp") @@
    (<<".","t","i","f","f">> :> "image/tiff") @@
    (<<".","b","m","p">> :> "image/bmp")

\* obj[key] of a JavaScript object literal: undefined for a missing key
Lookup(table, key) == IF key \in DOMAIN table THEN table[key] ELSE NULL

\* the switch of getProcessor over specifiedType.toLowerCase()
SpecifiedProcessorMutant(label) ==
    CASE label = <<"c","s","v">> -> csvProcessor
      [] label = <<"e","x","c","e","l">> -> excelProcessor
      [] label = <<"x","m","l">> -> excelProcessor
      [] label = <<"p","d","f">> -> pdfProcessor
      [] label = <<"i","m","a","g","e">> -> imageProcessor
      [] OTHER -> NULL

SpecifiedProcessor(label) ==
    CASE label = <<"c","s","v">> -> csvProcessor
      [] label = <<"e","x","c","e","l">> -> excelProcessor
      [] label = <<"x","m","l">> -> xmlProcessor
      [] label = <<"p","d","f">> -> pdfProcessor
      [] label = <<"i","m","a","g","e">> -> imageProcessor
      [] OTHER -> NULL

\* the detection of getProcessor: the MIME table first, then the extension
DetectProcessorMutant(mimeType, filename) ==
    LET ext == substring(toLowerCase(filename), lastIndexOf(filename, "."))
        mappedMimeType == Lookup(EXTENSION_MAP, ext)
    IN  IF filename # NoString /\ filename # <<>> /\ mappedMimeType # NULL
           /\ Lookup(SUPPORTED_FORMATS, mappedMimeType) # NULL
        THEN Lookup(SUPPORTED_FORMATS, mappedMimeType)
        ELSE Lookup(SUPPORTED_FORMATS, mimeType)

DetectProcessor(mimeType, filename) ==
    IF Lookup(SUPPORTED_FORMATS, mimeType) # NULL
    THEN Lookup(SUPPORTED_FORMATS, mimeType)
    ELSE IF filename # NoString /\ filename # <<>>
    THEN LET ext == substring(toLowerCase(filename), lastIndexOf(filename, "."))
             mappedMimeType == Lookup(EXTENSION_MAP, ext)
         IN  IF mappedMimeType # NULL /\ Lookup(SUPPORTED_FORMATS, mappedMimeType) # NULL
             THEN Lookup(SUPPORTED_FORMATS, mappedMimeType)
             ELSE NULL
    ELSE NULL

\* a JavaScript string or null/undefined is truthy unless null or empty
Truthy(s) == s # NoString /\ s # <<>>

getProcessor(mimeType, filename, specifiedType) ==
    IF Truthy(specifiedType) /\ SpecifiedProcessor(toLowerCase(specifiedType)) # NULL
    THEN SpecifiedProcessor(toLowerCase(specifiedType))
    ELSE DetectProcessor(mimeType, filename)

isSupported(mimeType, filename, specifiedType) ==
    getProcessor(mimeType, filename, specifiedType) # NULL

(***************************************************************************)
(* Sequences                                                               *)
(***************************************************************************)
SeqsUpTo(S, n) == UNION {[1..k -> S] : k \in 0..n}

RECURSIVE Concat(_)
Concat(ss) == IF ss = <<>> THEN <<>> ELSE Head(ss) \o Concat(Tail(ss))

\* the indexes whose flag is the wanted one, in order
FilterIndex(flags, wanted) ==
    LET Keep(i) == flags[i] = wanted
    IN  SelectSeq([i \in 1..Len(flags) |-> i], Keep)

\* a processor's outcome: a ProcessingResult, or a thrown Error
Returned(data, errors, meta) ==
    [threw |-> FALSE, data |-> data, errors |-> errors, metadata |-> meta]
Threw(prefix, message) == [threw |-> TRUE, message |-> <<prefix, message>>]

(***************************************************************************)
(* backend/processors/excelProcessor.js                                    *)
(***************************************************************************)
\* JavaScript falsy values: v || null is null for them
Falsy(v) == v \in {"null", "undefined", "str:", "num:0", "num:NaN", "bool:false"}
OrNull(v) == IF Falsy(v) THEN NULL ELSE v

\* row[colIndex]: undefined past the end of the row
CellAt(row, colIndex) == IF colIndex \in DOMAIN row THEN row[colIndex] ELSE "undefined"

\* headers.forEach((header, colIndex) => record[header] = row[colIndex] || null)
ExcelRecord(headers, row) ==
    [h \in {headers[i] : i \in DOMAIN headers} |->
        LET last == CHOOSE i \in DOMAIN headers :
                       headers[i] = h /\ \A j \in DOMAIN headers : headers[j] = h => j <= i
        IN  OrNull(CellAt(row, last))]

validateExcelRecord(record) ==
    LET hasData == \E h \in DOMAIN record : record[h] \notin {NULL, "undefined", "str:"}
    IN  [isValid |-> hasData,
         errors |-> IF hasData THEN <<>> ELSE <<"Empty row">>]

\* the rows of one worksheet, split by validateExcelRecord; row numbers start at 2
ExcelSheet(sheet) ==
    IF Len(sheet.jsonData) = 0 THEN [data |-> <<>>, errors |-> <<>>]
    ELSE
    LET headers == Head(sheet.jsonData)
        rows == Tail(sheet.jsonData)
        rec(i) == ExcelRecord(headers, rows[i])
        valid == [i \in 1..Len(rows) |-> validateExcelRecord(rec(i)).isValid]
        good == FilterIndex(valid, TRUE)
        bad == FilterIndex(valid, FALSE)
    IN  [data |-> [k \in 1..Len(good) |->
                     [_sheet |-> sheet.name, _row |-> good[k] + 1, _id |-> "id",
                      _processedAt |-> "Date"] @@ rec(good[k])],
         errors |-> [k \in 1..Len(bad) |->
                     [sheet |-> sheet.name, row |-> bad[k] + 1, data |-> rec(bad[k]),
                      errors |-> validateExcelRecord(rec(bad[k])).errors,
                      type |-> "validation_error"]]]

ExcelMetadataMutant(sheets, allData, allErrors) ==
    [sheets |-> [i \in 1..Len(sheets) |-> sheets[i].name],
     totalSheets |-> Len(sheets),
     totalRows |-> Len(allData),
     validRows |-> Len(allData),
     errorRows |-> Len(allErrors)]

ExcelMetadata(sheets, allData, allErrors) ==
    [sheets |-> [i \in 1..Len(sheets) |-> sheets[i].name],
     totalSheets |-> Len(sheets),
     totalRows |-> Len(allData) + Len(allErrors),
     validRows |-> Len(allData),
     errorRows |-> Len(allErrors)]

\* excelProcessor.process(file, metadata) on the workbook XLSX reads from the file
ExcelProcess(f, workbook) ==
    IF ~f.hasPath /\ ~f.hasBuffer
    THEN Threw("Excel processing failed: ", "No file data provided")
    ELSE IF ~workbook.readable
    THEN Threw("Excel processing failed: ", "XLSX read error")
    ELSE
    With([i \in 1..Len(workbook.sheets) |-> ExcelSheet(workbook.sheets[i])],
         LAMBDA parts :
            LET allData == Concat([i \in 1..Len(parts) |-> parts[i].data])
                allErrors == Concat([i \in 1..Len(parts) |-> parts[i].errors])
            IN  Returned(allData, allErrors,
                         ExcelMetadata(workbook.sheets, allData, allErrors)))

\* the workbooks of the model: one or two worksheets, MaxRows data rows in
\* all; a cell is null (defval), an empty string, 0, false or a value
MaxRows == 2
Sheet1Headers == <<"id", "name">>
Sheet1Rows == {<<a, b>> : a \in {"null", "num:0"},
                          b \in {"null", "str:", "bool:false", "str:x"}}
Sheet2Headers == <<"code">>
Sheet2Rows == {<<a>> : a \in {"null", "str:", "str:x"}}
SheetJson(headers, rowSet, n) ==
    {<<>>} \cup {<<headers>> \o rows : rows \in SeqsUpTo(rowSet, n)}
DataRows(json) == IF Len(json) = 0 THEN 0 ELSE Len(json) - 1
UnreadableWorkbook == [readable |-> FALSE, sheets |-> <<>>]
Workbooks ==
    {UnreadableWorkbook}
    \cup {[readable |-> TRUE, sheets |-> <<[name |-> "Sheet1", jsonData |-> j1]>>] :
             j1 \in SheetJson(Sheet1Headers, Sheet1Rows, MaxRows)}
    \cup {[readable |-> TRUE,
           sheets |-> <<[name |-> "Sheet1", jsonData |-> j[1]],
                        [name |-> "Sheet2", jsonData |-> j[2]]>>] :
             j \in {jj \in SheetJson(Sheet1Headers, Sheet1Rows, MaxRows)
                           \X SheetJson(Sheet2Headers, Sheet2Rows, MaxRows) :
                      DataRows(jj[1]) + DataRows(jj[2]) <= MaxRows}}

(***************************************************************************)
(* backend/processors/csvProcessor.js, xmlProcessor.js                     *)
(***************************************************************************)
\* executePythonScript: the promise settles on the child's close or error
\* event; run is what the child process did
executePythonScript(f, run) ==
    IF ~f.hasPath THEN [rejected |-> TRUE, message |-> "spawn: invalid argument"]
    ELSE IF run.event = "error"
    THEN [rejected |-> TRUE, message |-> "Failed to start Python process"]
    ELSE IF run.code # 0
    THEN [rejected |-> TRUE, message |-> "Python script failed with code"]
    ELSE IF run.stdout.kind = "unparseable"
    THEN [rejected |-> TRUE, message |-> "Failed to parse Python output as JSON"]
    ELSE [rejected |-> FALSE, value |-> run.stdout]

\* type: error.type || 'processing_error', after the spread of the script's entry
PythonError(error, source, originalname) ==
    [_timestamp |-> "Date", _source |-> source, _originalFile |-> originalname,
     type |-> IF "type" \in DOMAIN error THEN error.type ELSE "processing_error"]
    @@ error

PythonMetadata(name, f, records, errors) ==
    [processor |-> name,
     totalItems |-> Len(records) + Len(errors),
     validItems |-> Len(records),
     errorItems |-> Len(errors),
     originalFile |-> f.originalname,
     fileSize |-> f.size]

\* process(file, metadata) of the CSV and of the XML processor from the
\* settling of executePythonScript on
PythonSettled(f, r, prefix, source, name) ==
        IF r.rejected THEN Threw(prefix, r.message)
        ELSE IF r.value.kind = "null" THEN Threw(prefix, "TypeError: reading a property of null")
        ELSE
        LET processedData == r.value.processedData
            logs == r.value.errorLogs
            records == [i \in 1..Len(processedData) |->
                          [_id |-> "id", _processedAt |-> "Date", _source |-> source,
                           _originalFile |-> f.originalname] @@ processedData[i]]
            errors == [i \in 1..Len(logs) |->
                          PythonError(logs[i], source, f.originalname)]
        IN  Returned(records, errors, PythonMetadata(name, f, records, errors))

CsvSettled(f, r) ==
    PythonSettled(f, r, "CSV processing failed: ", "python_csv_processor",
                  <<"P","y","t","h","o","n"," ","C","S","V"," ",
                    "P","r","o","c","e","s","s","o","r">>)

XmlSettled(f, r) ==
    PythonSettled(f, r, "XML processing failed: ", "python_xml_processor",
                  <<"P","y","t","h","o","n"," ","X","M","L"," ",
                    "P","r","o","c","e","s","s","o","r">>)

\* process(file, metadata) of the CSV and of the XML processor
CsvProcess(f, run) == CsvSettled(f, executePythonScript(f, run))
XmlProcess(f, run) == XmlSettled(f, executePythonScript(f, run))

\* what the script can do: the close event with an exit code (-1 stands for
\* the null of a child ended by a signal) and its stdout, or the error event; the stdout is not
\* JSON, the JSON null, or an object whose missing arrays read as []
MaxScriptItems == 1
ScriptRecords == {[name |-> "str:Ann"], [name |-> "str:Bob", age |-> "num:30"]}
ScriptErrors ==
    {[error_type |-> "validation_failed", message |-> "Name is required", row_number |-> 2],
     [type |-> "missing_field", message |-> "Email is required", row_number |-> 3]}
ScriptStdout ==
    {[kind |-> "unparseable"], [kind |-> "null"]}
    \cup {[kind |-> "object", processedData |-> d, errorLogs |-> e] :
             d \in SeqsUpTo(ScriptRecords, MaxScriptItems),
             e \in SeqsUpTo(ScriptErrors, MaxScriptItems)}
PythonRuns ==
    {[event |-> "error", code |-> -1, stdout |-> [kind |-> "unparseable"]]}
    \cup {[event |-> "close", code |-> c, stdout |-> o] :
             c \in {0, 1, -1}, o \in ScriptStdout}

(***************************************************************************)
(* backend/processors/pdfProcessor.js                                      *)
(***************************************************************************)
\* /^[\w\s]+\s+[\w\s]+\s+[\w\s]+/.test(line): in the leading run of word
\* characters and blanks, two blanks with a character before, between and
\* after them
tablePattern(line) ==
    LET run == RunEnd(line, 1, "wordspace") - 1
    IN  \E i, j \in 1..run :
           /\ IsSpace(line[i]) /\ IsSpace(line[j])
           /\ i >= 2 /\ j >= i + 2 /\ j <= run - 1

NoHeaders == <<NULL>>

\* a data row as a record: record[header] = columns[i] || ''
TableRecord(headers, columns) ==
    [h \in {Str(headers[i]) : i \in DOMAIN headers} |->
        LET last == CHOOSE i \in DOMAIN headers :
                       /\ Str(headers[i]) = h
                       /\ \A j \in DOMAIN headers : Str(headers[j]) = h => j <= i
        IN  Str(columns[last])]

\* lines.forEach of extractTableData, with the headers found so far
RECURSIVE TableRows(_, _, _)
TableRows(lines, index, headers) ==
    IF index > Len(lines) THEN <<>>
    ELSE
    With(SelectSeq(SplitColumns(lines[index], <<>>), NonEmpty), LAMBDA columns :
        IF ~tablePattern(lines[index]) THEN TableRows(lines, index + 1, headers)
        ELSE IF headers = NoHeaders /\ Len(columns) > 1
        THEN With([i \in DOMAIN columns |-> ReplaceSpaces(toLowerCase(columns[i]))],
                  LAMBDA found : TableRows(lines, index + 1, found))
        ELSE IF headers # NoHeaders /\ Len(columns) = Len(headers)
        THEN <<TableRecord(headers, columns)>> \o TableRows(lines, index + 1, headers)
        ELSE TableRows(lines, index + 1, headers))

extractTableData(text) ==
    With(SplitLines(text), LAMBDA split :
        With(SelectSeq([i \in DOMAIN split |-> trim(split[i])], NonEmpty),
             LAMBDA lines : TableRows(lines, 1, NoHeaders)))

NoMatch == [found |-> FALSE]
AtLineStart(text, p) == p = 1 \/ text[p - 1] = "\n"

\* the match of /^([^:]+):\s*(.+)$/m that starts at position p: the key
\* runs to the first colon, the blanks after the colon are skipped as far as
\* a character of the same line follows, the value runs to the end of that line
KeyValueMatch(text, p) ==
    LET colon == RunEnd(text, p, "nocolon")
        blanks == RunEnd(text, colon + 1, "space")
        starts == {v \in (colon + 1)..blanks : v <= Len(text) /\ text[v] # "\n"}
    IN  IF ~AtLineStart(text, p) \/ colon = p \/ colon > Len(text) \/ starts = {}
        THEN NoMatch
        ELSE LET v == CHOOSE v \in starts : \A w \in starts : w <= v
             IN  [found |-> TRUE,
                  key |-> SubSeq(text, p, colon - 1),
                  value |-> SubSeq(text, v, RunEnd(text, v, "line") - 1),
                  end |-> RunEnd(text, v, "line")]

\* the while loop of extractKeyValuePairs: exec tries the positions from
\* lastIndex on and sets lastIndex to the end of the match
RECURSIVE KeyValueMatches(_, _, _)
KeyValueMatches(text, from, matches) ==
    IF from > Len(text) THEN matches
    ELSE With(KeyValueMatch(text, from), LAMBDA match :
            IF ~match.found THEN KeyValueMatches(text, from + 1, matches)
            ELSE With((Str(ReplaceSpaces(toLowerCase(trim(match.key))))
                          :> Str(trim(match.value))) @@ matches,
                      LAMBDA found : KeyValueMatches(text, match.end, found)))

extractKeyValuePairs(text) ==
    With(KeyValueMatches(text, 1, <<>>), LAMBDA matches :
        IF DOMAIN matches = {} THEN <<>> ELSE <<matches>>)

\* (?:\s+[^\s:]+)*: where the value ends that so far ends before position e
RECURSIVE FormValueEnd(_, _)
FormValueEnd(text, e) ==
    LET blanks == RunEnd(text, e, "space")
        token == RunEnd(text, blanks, "token")
    IN  IF blanks > e /\ token > blanks THEN FormValueEnd(text, token) ELSE e

\* the match of /(\w+):\s*([^\s]+(?:\s+[^\s:]+)*)/ that starts at position p
FormMatch(text, p) ==
    LET colon == RunEnd(text, p, "word")
        start == RunEnd(text, colon + 1, "space")
        first == RunEnd(text, start, "nonspace")
    IN  IF colon = p \/ colon > Len(text) \/ text[colon] # ":" \/ first = start
        THEN NoMatch
        ELSE [found |-> TRUE,
              key |-> SubSeq(text, p, colon - 1),
              value |-> SubSeq(text, start, FormValueEnd(text, first) - 1),
              end |-> FormValueEnd(text, first)]

\* the while loop of extractFormData
RECURSIVE FormMatches(_, _, _)
FormMatches(text, from, currentForm) ==
    IF from > Len(text) THEN currentForm
    ELSE With(FormMatch(text, from), LAMBDA match :
            IF ~match.found THEN FormMatches(text, from + 1, currentForm)
            ELSE With((Str(ReplaceSpaces(toLowerCase(match.key)))
                          :> Str(trim(match.value))) @@ currentForm,
                      LAMBDA found : FormMatches(text, match.end, found)))

extractFormData(text) ==
    With(FormMatches(text, 1, <<>>), LAMBDA currentForm :
        IF DOMAIN currentForm = {} THEN <<>> ELSE <<currentForm>>)

extractDataFromPDFMutant(pdfData) ==
    With(extractTableData(pdfData.text) \o extractKeyValuePairs(pdfData.text),
         LAMBDA data :
            With(SelectSeq(extractFormData(pdfData.text),
                           LAMBDA form : \A i \in DOMAIN data : data[i] # form),
                 LAMBDA forms :
                    IF Len(data \o forms) = 0
                    THEN <<[content |-> Str(pdfData.text), type |-> "full_text",
                            pages |-> pdfData.numpages]>>
                    ELSE data \o forms))

\* extractDataFromPDF: the three extractors' records in order, or the
\* full-text record when they found nothing
extractDataFromPDF(pdfData) ==
    With(extractTableData(pdfData.text) \o extractKeyValuePairs(pdfData.text)
             \o extractFormData(pdfData.text),
         LAMBDA data :
            IF Len(data) = 0
            THEN <<[content |-> Str(pdfData.text), type |-> "full_text",
                    pages |-> pdfData.numpages]>>
            ELSE data)

\* !record || Object.keys(record).length === 0
validatePdfRecord(record) ==
    LET empty == DOMAIN record = {}
    IN  [isValid |-> ~empty, errors |-> IF empty THEN <<"Empty record">> ELSE <<>>]

\* extractedData.forEach: a valid item becomes a record, the others an error
SplitItems(items, validation) ==
    LET valid == [i \in 1..Len(items) |-> validation[i].isValid]
        good == FilterIndex(valid, TRUE)
        bad == FilterIndex(valid, FALSE)
    IN  [data |-> [k \in 1..Len(good) |->
                     [_id |-> "id", _processedAt |-> "Date", _index |-> good[k] - 1]
                     @@ items[good[k]]],
         errors |-> [k \in 1..Len(bad) |->
                       [index |-> bad[k] - 1, data |-> items[bad[k]],
                        errors |-> validation[bad[k]].errors,
                        type |-> "validation_error"]]]

PdfProcess(f, pdfData) ==
    IF ~f.hasPath /\ ~f.hasBuffer
    THEN Threw("PDF processing failed: ", "No file data provided")
    ELSE IF ~pdfData.readable
    THEN Threw("PDF processing failed: ", "pdf-parse error")
    ELSE
    With(extractDataFromPDF(pdfData), LAMBDA extractedData :
        With(SplitItems(extractedData,
                        [i \in 1..Len(extractedData) |->
                            validatePdfRecord(extractedData[i])]),
             LAMBDA split :
                Returned(split.data, split.errors,
                         [pages |-> pdfData.numpages,
                          textLength |-> Len(pdfData.text),
                          totalItems |-> Len(split.data) + Len(split.errors),
                          validItems |-> Len(split.data),
                          errorItems |-> Len(split.errors)])))

\* what pdf-parse yields: it fails, or gives a text of up to MaxLines lines
MaxLines == 2
TextLines == {<<"N","a","m","e",":"," ","J","o","h","n">>,
              <<"A","g","e",":"," ","3","0">>,
              <<"k"," "," ","v"," "," ","w">>,
              <<"1"," "," ","x"," "," ","y">>,
              <<"n","o","t","e">>,
              <<>>}
RECURSIVE JoinLines(_)
JoinLines(lines) ==
    IF Len(lines) = 0 THEN <<>>
    ELSE IF Len(lines) = 1 THEN lines[1]
    ELSE lines[1] \o <<"\n">> \o JoinLines(Tail(lines))
PdfTexts == {JoinLines(lines) : lines \in SeqsUpTo(TextLines, MaxLines)}
PdfDocuments ==
    {[readable |-> FALSE, numpages |-> 0, text |-> <<>>]}
    \cup {[readable |-> TRUE, numpages |-> 1, text |-> t] : t \in PdfTexts}

\* the one merged record the key-value or the form heuristic of the OCR text yields
MergedRecords == {[name |-> "John"], [name |-> "John", age |-> "30"]}
ZeroOrOne(S) == {<<>>} \cup {<<x>> : x \in S}

(***************************************************************************)
(* backend/processors/imageProcessor.js                                    *)
(***************************************************************************)
\* extractDataFromOCR: extractTableFromOCR returns no record, then the form
\* record, then the key-value record
extractKeyValueFromOCR(text) == extractKeyValuePairs(text)
extractDataFromOCR(ocr) == <<>> \o ocr.formData \o extractKeyValueFromOCR(ocr.text)

validateImageRecord(record) ==
    LET empty == DOMAIN record = {}
    IN  [isValid |-> ~empty, errors |-> IF empty THEN <<"No data extracted">> ELSE <<>>]

ImageProcess(f, ocr) ==
    IF ~f.hasPath /\ ~f.hasBuffer
    THEN Threw("Image processing failed: ", "No file data provided")
    ELSE IF ~ocr.readable
    THEN Threw("Image processing failed: ", "OCR failed: ")
    ELSE
    LET extractedData == extractDataFromOCR(ocr)
        split == SplitItems(extractedData,
                            [i \in 1..Len(extractedData) |->
                                validateImageRecord(extractedData[i])])
        imageMetadata == [width |-> ocr.width, height |-> ocr.height]
        found == [k \in 1..Len(split.data) |->
                    [_imageMetadata |-> imageMetadata] @@ split.data[k]]
        records == IF Len(found) = 0 /\ Len(trim(ocr.text)) > 0
                   THEN <<[_id |-> "id", _processedAt |-> "Date",
                           type |-> "ocr_text", content |-> Str(ocr.text),
                           confidence |-> ocr.confidence,
                           _imageMetadata |-> imageMetadata]>>
                   ELSE found
    IN  Returned(records, split.errors,
                 [image |-> imageMetadata,
                  ocr |-> [confidence |-> ocr.confidence, textLength |-> Len(ocr.text)],
                  totalItems |-> Len(records) + Len(split.errors),
                  validItems |-> Len(records),
                  errorItems |-> Len(split.errors)])

\* what sharp and tesseract yield: the OCR text by character, and the record
\* the five patterns of extractFormFromOCR find in it (only name: matches here)
OcrTexts ==
    {<<>>, <<" ", " ">>, <<"\n">>,
     <<"r","e","c","e","i","p","t">>,
     <<"A","g","e",":"," ","3","0">>,
     <<"N","a","m","e",":"," ","J","o","h","n">>,
     <<"N","a","m","e",":"," ","J","o","h","n","\n","A","g","e",":"," ","3","0">>}
extractFormFromOCR(text) ==
    CASE Str(text) = "Name: John" -> <<[name |-> "John"]>>
      [] Str(text) = "Name: John\nAge: 30" -> <<[name |-> "John"]>>
      [] OTHER -> <<>>
OcrResults ==
    {[readable |-> FALSE, width |-> 0, height |-> 0, text |-> <<>>,
      confidence |-> 0, formData |-> <<>>]}
    \cup {[readable |-> TRUE, width |-> 640, height |-> 480, text |-> t,
           confidence |-> IF Len(trim(t)) = 0 THEN 0 ELSE 87,
           formData |-> extractFormFromOCR(t)] : t \in OcrTexts}

(***************************************************************************)
(* backend/processors/index.js: detectFileType and processFile             *)
(***************************************************************************)
\* the characters of the MIME types, for includes and startsWith
MimeChars ==
    ("text/csv" :>
        <<"t","e","x","t","/","c","s","v">>) @@
    ("application/csv" :>
        <<"a","p","p","l","i","c","a","t","i","o","n","/","c","s","v">>) @@
    ("application/vnd.openxmlformats-officedocument.spreadsheetml.sheet" :>
        <<"a","p","p","l","i","c","a","t","i","o","n","/","v","n","d",".","o","p","e","n","x","m","l","f","o","r","m","a","t","s","-","o","f","f","i","c","e","d","o","c","u","m","e","n","t",".","s","p","r","e","a","d","s","h","e","e","t","m","l",".","s","h","e","e","t">>) @@
    ("application/vnd.ms-excel" :>
        <<"a","p","p","l","i","c","a","t","i","o","n","/","v","n","d",".","m","s","-","e","x","c","e","l">>) @@
    ("application/xml" :>
        <<"a","p","p","l","i","c","a","t","i","o","n","/","x","m","l">>) @@
    ("text/xml" :>
        <<"t","e","x","t","/","x","m","l">>) @@
    ("application/pdf" :>
        <<"a","p","p","l","i","c","a","t","i","o","n","/","p","d","f">>) @@
    ("image/jpeg" :>
        <<"i","m","a","g","e","/","j","p","e","g">>) @@
    ("image/jpg" :>
        <<"i","m","a","g","e","/","j","p","g">>) @@
    ("image/png" :>
        <<"i","m","a","g","e","/","p","n","g">>) @@
    ("image/gif" :>
        <<"i","m","a","g","e","/","g","i","f">>) @@
    ("image/webp" :>
        <<"i","m","a","g","e","/","w","e","b","p">>) @@
    ("image/tiff" :>
        <<"i","m","a","g","e","/","t","i","f","f">>) @@
    ("image/bmp" :>
        <<"i","m","a","g","e","/","b","m","p">>) @@
    ("application/octet-stream" :>
        <<"a","p","p","l","i","c","a","t","i","o","n","/","o","c","t","e","t","-","s","t","r","e","a","m">>) @@
    ("text/plain" :>
        <<"t","e","x","t","/","p","l","a","i","n">>)

\* String.prototype.includes and startsWith
includes(s, word) ==
    \E i \in 0..(Len(s) - Len(word)) : SubSeq(s, i + 1, i + Len(word)) = word
startsWith(s, word) == Len(word) <= Len(s) /\ SubSeq(s, 1, Len(word)) = word

Label(str) == CASE str = "csv" -> <<"c","s","v">>
                [] str = "excel" -> <<"e","x","c","e","l">>
                [] str = "xml" -> <<"x","m","l">>
                [] str = "pdf" -> <<"p","d","f">>
                [] str = "image" -> <<"i","m","a","g","e">>
                [] str = "unknown" -> <<"u","n","k","n","o","w","n">>
CanonicalLabels == {Label("csv"), Label("excel"), Label("xml"), Label("pdf"), Label("image")}

detectByExtension(filename) ==
    IF filename # NoString /\ filename # <<>>
    THEN LET ext == substring(toLowerCase(filename), lastIndexOf(filename, "."))
         IN  CASE ext = <<".","c","s","v">> -> Label("csv")
               [] ext \in {<<".","x","l","s","x">>, <<".","x","l","s">>} -> Label("excel")
               [] ext = <<".","x","m","l">> -> Label("xml")
               [] ext = <<".","p","d","f">> -> Label("pdf")
               [] ext \in {<<".","j","p","g">>, <<".","j","p","e","g">>, <<".","p","n","g">>, <<".","g","i","f">>, <<".","w","e","b","p">>, <<".","t","i","f","f">>, <<".","b","m","p">>}
                    -> Label("image")
               [] OTHER -> Label("unknown")
    ELSE Label("unknown")

detectFileType(mimeType, filename) ==
    IF mimeType # NULL /\ Lookup(SUPPORTED_FORMATS, mimeType) # NULL
    THEN LET m == MimeChars[mimeType]
         IN  CASE includes(m, Label("csv")) -> Label("csv")
               [] includes(m, <<"s","p","r","e","a","d","s","h","e","e","t">>) \/ includes(m, Label("excel"))
                    -> Label("excel")
               [] includes(m, Label("xml")) -> Label("xml")
               [] includes(m, Label("pdf")) -> Label("pdf")
               [] startsWith(m, <<"i","m","a","g","e","/">>) -> Label("image")
               [] OTHER -> detectByExtension(filename)
    ELSE detectByExtension(filename)

\* the metadata processFile builds; the spread of options comes last
BuildMetadata(f, o) ==
    o @@
    [originalName |-> f.originalname,
     mimeType |-> f.mimetype,
     size |-> f.size,
     processedAt |-> "Date",
     processor |-> IF Truthy(o.specifiedFileType) THEN o.specifiedFileType
                   ELSE detectFileType(f.mimetype, f.originalname),
     specifiedType |-> IF Truthy(o.specifiedFileType) THEN o.specifiedFileType
                       ELSE NoString,
     detectedType |-> detectFileType(f.mimetype, f.originalname)]

UnsupportedMessageMutant(f, o) ==
    <<"Unsupported file format: ", f.mimetype, f.originalname>>

\* the message of the Error processFile throws when no processor matches
UnsupportedMessage(f, o) ==
    IF Truthy(o.specifiedFileType)
    THEN <<"Unsupported specified file type: ", o.specifiedFileType>>
    ELSE <<"Unsupported file format: ", f.mimetype, f.originalname>>

SuccessEnvelope(meta, res) ==
    [success |-> TRUE,
     data |-> res.data,
     metadata |-> res.metadata @@
                  [recordCount |-> Len(res.data), processingTime |-> "ms"] @@ meta,
     errors |-> res.errors]

FailureEnvelopeMutant(meta, message) ==
    [success |-> FALSE,
     data |-> <<>>,
     metadata |-> [processingTime |-> "ms"] @@ meta,
     errors |-> <<[type |-> "processing_error", message |-> <<"Processing failed">>,
                   timestamp |-> "Date"]>>]

FailureEnvelope(meta, message) ==
    [success |-> FALSE,
     data |-> <<>>,
     metadata |-> [processingTime |-> "ms"] @@ meta,
     errors |-> <<[type |-> "processing_error", message |-> message,
                   timestamp |-> "Date"]>>]

\* the uploads and options of the model
Mimes == {"text/csv", "application/vnd.ms-excel", "application/pdf", "image/png",
          "application/octet-stream"}
Filenames == {<<"a",".","c","s","v">>,
              <<"b",".","P","D","F">>,
              <<"c",".","x","l","s">>,
              <<"d","a","t","a">>}
SpecifiedTypes == {NoString, <<>>,
                   <<"c","s","v">>,
                   <<"C","S","V">>,
                   <<"E","x","c","e","l">>,
                   <<"x","m","l">>,
                   <<"p","d","f">>,
                   <<"i","m","a","g","e">>,
                   <<"j","s","o","n">>}
\* multer's disk storage sets path; a descriptor with neither path nor buffer
\* carries no file data
Files == {[mimetype |-> m, originalname |-> n, size |-> 1024, hasPath |-> hp,
           hasBuffer |-> FALSE] : m \in Mimes, n \in Filenames, hp \in BOOLEAN}
Options == {[specifiedFileType |-> t] : t \in SpecifiedTypes}

NoContent == [kind |-> "none"]

\* processFile up to the call of processor.process
ProcessFileStart(f, o) ==
    /\ pc = "idle"
    /\ file' = f
    /\ options' = o
    /\ processor' = getProcessor(f.mimetype, f.originalname, o.specifiedFileType)
    /\ IF processor' = NULL
       THEN /\ pc' = "thrown"
            /\ thrown' = UnsupportedMessage(f, o)
            /\ UNCHANGED metadata
       ELSE /\ pc' = "processing"
            /\ metadata' = BuildMetadata(f, o)
            /\ UNCHANGED thrown
    /\ UNCHANGED <<content, invoked, result, procError, envelope>>

ProcessFileCall(f, o) == ProcessFileStart(f, o) /\ UNCHANGED exceptDispatch

\* processFile from the settling of processor.process to its return
Settle(name, read, outcome) ==
    /\ pc = "processing"
    /\ pc' = "returned"
    /\ invoked' = name
    /\ content' = read
    /\ IF outcome.threw
       THEN /\ procError' = outcome.message
            /\ envelope' = FailureEnvelope(metadata, outcome.message)
            /\ UNCHANGED result
       ELSE /\ result' = outcome
            /\ envelope' = SuccessEnvelope(metadata, outcome)
            /\ UNCHANGED procError
    /\ UNCHANGED <<file, options, processor, metadata, thrown>>
    /\ UNCHANGED exceptDispatch

HasData(f) == f.hasPath \/ f.hasBuffer

RunCsv ==
    /\ pc = "processing"
    /\ processor = csvProcessor
    /\ \E run \in PythonRuns :
          \E outcome \in {CsvProcess(file, run)} :
             Settle(csvProcessor, [kind |-> "script", run |-> run], outcome)

RunXml ==
    /\ pc = "processing"
    /\ processor = xmlProcessor
    /\ \E run \in PythonRuns :
          \E outcome \in {XmlProcess(file, run)} :
             Settle(xmlProcessor, [kind |-> "script", run |-> run], outcome)

RunExcel ==
    /\ pc = "processing"
    /\ processor = excelProcessor
    /\ \E wb \in (IF HasData(file) THEN Workbooks ELSE {UnreadableWorkbook}) :
          \E outcome \in {ExcelProcess(file, wb)} :
             Settle(excelProcessor, [kind |-> "workbook", workbook |-> wb], outcome)

RunPdf ==
    /\ pc = "processing"
    /\ processor = pdfProcessor
    /\ \E doc \in (IF HasData(file) THEN PdfDocuments
                   ELSE {d \in PdfDocuments : ~d.readable}) :
          \E outcome \in {PdfProcess(file, doc)} :
             Settle(pdfProcessor, [kind |-> "pdf", pdfData |-> doc], outcome)

RunImage ==
    /\ pc = "processing"
    /\ processor = imageProcessor
    /\ \E ocr \in (IF HasData(file) THEN OcrResults
                   ELSE {d \in OcrResults : ~d.readable}) :
          \E outcome \in {ImageProcess(file, ocr)} :
             Settle(imageProcessor, [kind |-> "image", ocr |-> ocr], outcome)

NoFile == [mimetype |-> NULL, originalname |-> NoString, size |-> 0,
           hasPath |-> FALSE, hasBuffer |-> FALSE]
NoEnvelope == [success |-> FALSE, data |-> <<>>, metadata |-> <<>>, errors |-> <<>>]

InitDispatch ==
    /\ pc = "idle"
    /\ file = NoFile
    /\ content = NoContent
    /\ options = [specifiedFileType |-> NoString]
    /\ processor = NULL
    /\ metadata = <<>>
    /\ invoked = NULL
    /\ result = Returned(<<>>, <<>>, <<>>)
    /\ procError = <<>>
    /\ envelope = NoEnvelope
    /\ thrown = <<>>

(***************************************************************************)
(* backend/models/ErrorLog.js and backend/routes/errors.js:                *)
(* PATCH /api/errors/:id/status                                            *)
(***************************************************************************)
MaxLogs == 1
MaxClock == 2

\* a Date field that is not set
NoDate == 0

\* a document as ErrorLog.insertMany stores it: status defaults to UNRESOLVED
NewErrorLog == [status |-> "UNRESOLVED", resolvedAt |-> NoDate,
                resolvedBy |-> NULL, resolutionNotes |-> NULL]

InsertErrorLog ==
    /\ Cardinality(DOMAIN errorLogs) < MaxLogs
    /\ errorLogs' = errorLogs @@ ((Cardinality(DOMAIN errorLogs) + 1) :> NewErrorLog)
    /\ UNCHANGED <<clock, errReq, errRes, errPrev>>
    /\ UNCHANGED exceptErrors

validStatusesMutant == {"UNRESOLVED", "RESOLVED", "IGNORED", "resolved"}

validStatuses == {"UNRESOLVED", "RESOLVED", "IGNORED"}

\* the update object of the handler; now is the reading of new Date()
UpdateData(body, now) ==
    IF body.status = "RESOLVED"
    THEN [status |-> body.status, resolvedAt |-> now,
          resolvedBy |-> IF body.resolvedBy \in {NULL, ""} THEN "System"
                         ELSE body.resolvedBy]
         @@ (IF body.resolutionNotes \in {NULL, ""} THEN <<>>
             ELSE [resolutionNotes |-> body.resolutionNotes])
    ELSE [status |-> body.status]

\* findByIdAndUpdate: the fields of the update are set, the others kept
ApplyUpdate(doc, update) == update @@ doc

\* the ids a client can send: a stored one, a well-formed one that is not
\* stored, and one that is no ObjectId
MissingId == 99
MalformedId == -1
RequestIds == 1..MaxLogs \cup {MissingId, MalformedId}
RequestStatuses == {"UNRESOLVED", "RESOLVED", "IGNORED", "resolved", NULL}
RequestBodies == [status : RequestStatuses,
                  resolvedBy : {NULL, "System User"},
                  resolutionNotes : {NULL, "", "Marked as ignored by user"}]

\* the handler of PATCH /api/errors/:id/status
PatchStatusCall(id, body) ==
    /\ clock < MaxClock
    /\ clock' = clock + 1
    /\ errReq' = [id |-> id, body |-> body]
    /\ errPrev' = errorLogs
    /\ IF body.status \notin validStatuses
       THEN /\ errRes' = [code |-> 400, message |-> "Invalid status"]
            /\ UNCHANGED errorLogs
       ELSE IF id = MalformedId
       THEN /\ errRes' = [code |-> 400, message |-> "Invalid error ID format"]
            /\ UNCHANGED errorLogs
       ELSE IF id \notin DOMAIN errorLogs
       THEN /\ errRes' = [code |-> 404, message |-> "Error log not found"]
            /\ UNCHANGED errorLogs
       ELSE /\ errorLogs' = [errorLogs EXCEPT
                               ![id] = ApplyUpdate(@, UpdateData(body, clock'))]
            /\ errRes' = [code |-> 200, message |-> "Error status updated successfully"]

PatchStatus(id, body) == PatchStatusCall(id, body) /\ UNCHANGED exceptErrors

InitErrors ==
    /\ errorLogs = <<>>
    /\ clock = 0
    /\ errReq = [id |-> MissingId,
                 body |-> [status |-> NULL, resolvedBy |-> NULL, resolutionNotes |-> NULL]]
    /\ errRes = [code |-> 0, message |-> ""]
    /\ errPrev = <<>>

(***************************************************************************)
(* backend/routes/customers.js, errors.js: the pagination of GET /         *)
(***************************************************************************)
\* a JavaScript number: an integer or NaN
Num(n) == [nan |-> FALSE, v |-> n]
NaN == [nan |-> TRUE, v |-> 0]


\* the longest prefix of s made of digits
RECURSIVE DigitPrefix(_)
DigitPrefix(s) ==
    IF s = <<>> \/ ~IsDigit(Head(s)) THEN <<>> ELSE <<Head(s)>> \o DigitPrefix(Tail(s))

RECURSIVE Decimal(_)
Decimal(ds) ==
    IF ds = <<>> THEN 0 ELSE Decimal(SubSeq(ds, 1, Len(ds) - 1)) * 10 + DigitValue(ds[Len(ds)])

RECURSIVE TrimStart(_)
TrimStart(s) == IF s # <<>> /\ Head(s) = " " THEN TrimStart(Tail(s)) ELSE s

\* parseInt(string): leading blanks, a sign, then decimal digits; NaN without a digit
parseInt(str) ==
    LET s == TrimStart(str)
        negative == s # <<>> /\ Head(s) = "-"
        rest == IF s # <<>> /\ Head(s) \in {"-", "+"} THEN Tail(s) ELSE s
        ds == DigitPrefix(rest)
    IN  IF ds = <<>> THEN NaN
        ELSE Num(IF negative THEN 0 - Decimal(ds) ELSE Decimal(ds))

\* Math.max and Math.min: NaN when an argument is NaN
MathMax(a, b) == IF a.nan \/ b.nan THEN NaN ELSE IF a.v >= b.v THEN a ELSE b
MathMin(a, b) == IF a.nan \/ b.nan THEN NaN ELSE IF a.v <= b.v THEN a ELSE b

\* const { page = 1, limit = 10 } = req.query: the default for a missing parameter
DefaultPage == <<"1">>
DefaultLimit == <<"1","0">>
PageLimit == 100

PageNumber(page) == MathMax(Num(1), parseInt(IF page = NoString THEN DefaultPage ELSE page))

PageSize(limit) ==
    MathMin(Num(PageLimit),
            MathMax(Num(1), parseInt(IF limit = NoString THEN DefaultLimit ELSE limit)))

\* the values of a query parameter: missing, or a string of MaxParamLen characters
MaxParamLen == 3
ParamChars == {"0", "1", "5", "-", "a"}
QueryParams == {NoString} \cup SeqsUpTo(ParamChars, MaxParamLen)
PageParams == {NoString, <<>>, <<"1">>, <<"0">>, <<"-","1">>, <<"5">>, <<"a">>}

GetPage(endpoint, page, limit) ==
    /\ pageReq.endpoint = "none"
    /\ pageReq' = [endpoint |-> endpoint, page |-> page, limit |-> limit]
    /\ pageRes' = [pageNumber |-> PageNumber(page), pageSize |-> PageSize(limit)]
    /\ UNCHANGED exceptPage

GetCustomers == \E page \in PageParams, limit \in QueryParams : GetPage("customers", page, limit)
GetErrors == \E page \in PageParams, limit \in QueryParams : GetPage("errors", page, limit)

InitPage ==
    /\ pageReq = [endpoint |-> "none", page |-> NoString, limit |-> NoString]
    /\ pageRes = [pageNumber |-> Num(1), pageSize |-> Num(1)]

(***************************************************************************)
(* backend/routes/customers.js, errors.js: GET / beside a running upload   *)
(***************************************************************************)
MaxDocuments == 3
Endpoints == {"customers", "errors"}
ListParams == {<<"1">>, <<"2">>}
SortOrders == {"asc", "desc"}

Reverse(seq) == [i \in 1..Len(seq) |-> seq[Len(seq) + 1 - i]]
Ceil(n, d) == (n + d - 1) \div d

\* find(query).sort(sortOptions).skip(skip).limit(pageSize) on the documents
\* stored at the moment the query runs
Find(documents, sortOrder, skip, pageSize) ==
    LET sorted == IF sortOrder = "asc" THEN documents ELSE Reverse(documents)
        last == IF skip + pageSize < Len(sorted) THEN skip + pageSize ELSE Len(sorted)
    IN  SubSeq(sorted, skip + 1, last)

countDocuments(documents) == Len(documents)

NotListing == [pc |-> "idle"]

\* the handler up to Promise.all: both queries are issued, neither has run
ListStart(endpoint, page, limit, sortOrder) ==
    /\ listing.pc \in {"idle", "responded"}
    /\ listing' = [pc |-> "querying",
                   endpoint |-> endpoint,
                   pageNumber |-> PageNumber(page).v,
                   pageSize |-> PageSize(limit).v,
                   skip |-> (PageNumber(page).v - 1) * PageSize(limit).v,
                   sortOrder |-> sortOrder,
                   found |-> FALSE, data |-> <<>>,
                   counted |-> FALSE, totalCount |-> 0]
    /\ UNCHANGED collection
    /\ UNCHANGED exceptList

ListCustomers ==
    \E page \in ListParams, limit \in ListParams, sortOrder \in SortOrders :
        ListStart("customers", page, limit, sortOrder)
ListErrors ==
    \E page \in ListParams, limit \in ListParams, sortOrder \in SortOrders :
        ListStart("errors", page, limit, sortOrder)

\* the store runs the find query
ListFind ==
    /\ listing.pc = "querying"
    /\ ~listing.found
    /\ listing' = [listing EXCEPT
                     !.found = TRUE,
                     !.data = Find(collection[listing.endpoint], listing.sortOrder,
                                   listing.skip, listing.pageSize)]
    /\ UNCHANGED collection
    /\ UNCHANGED exceptList

\* the store runs the count query
ListCount ==
    /\ listing.pc = "querying"
    /\ ~listing.counted
    /\ listing' = [listing EXCEPT
                     !.counted = TRUE,
                     !.totalCount = countDocuments(collection[listing.endpoint])]
    /\ UNCHANGED collection
    /\ UNCHANGED exceptList

\* Promise.all has resolved: the pagination info and the response
ListRespond ==
    /\ listing.pc = "querying"
    /\ listing.found /\ listing.counted
    /\ LET totalPages == Ceil(listing.totalCount, listing.pageSize)
           hasNextPage == listing.pageNumber < totalPages
       IN  listing' = [listing EXCEPT !.pc = "responded"] @@
                      [totalPages |-> totalPages,
                       totalRecords |-> listing.totalCount,
                       hasNextPage |-> hasNextPage,
                       hasPrevPage |-> listing.pageNumber > 1]
    /\ UNCHANGED collection
    /\ UNCHANGED exceptList

\* insertMany of a running POST /api/upload/file stores one more document
\* of a collection
UploadInserts(endpoint) ==
    /\ Len(collection[endpoint]) < MaxDocuments
    /\ collection' = [collection EXCEPT
                        ![endpoint] = Append(@, Len(@) + 1)]
    /\ UNCHANGED listing
    /\ UNCHANGED exceptList

InitList ==
    /\ collection = [endpoint \in Endpoints |-> <<>>]
    /\ listing = NotListing

(***************************************************************************)
(* frontend/src/components/ErrorLogs.jsx: the view of each client          *)
(***************************************************************************)
Clients == {1, 2}
NoSelection == [_id |-> 0, status |-> NULL]

\* useState: no rows, loading, no selected error; the effect fetches on mount
NewView == [data |-> <<>>, loading |-> TRUE, selectedError |-> NoSelection]

\* fetchErrors: the response of GET /api/errors replaces the rows
fetchErrors(c) ==
    /\ views' = [views EXCEPT
                   ![c].data = [id \in DOMAIN errorLogs |-> errorLogs[id].status],
                   ![c].loading = FALSE]
    /\ UNCHANGED errorVars
    /\ UNCHANGED exceptView

\* the eye button of a row: the modal shows the row as it was fetched
SelectError(c, id) ==
    /\ ~views[c].loading
    /\ id \in DOMAIN views[c].data
    /\ views' = [views EXCEPT
                   ![c].selectedError = [_id |-> id, status |-> views[c].data[id]]]
    /\ UNCHANGED errorVars
    /\ UNCHANGED exceptView

\* handleStatusUpdate: the PATCH request, then on success the rows are
\* fetched again (the table shows the loader) and the modal is closed
handleStatusUpdate(c, errorId, newStatus, resolutionNotes) ==
    /\ PatchStatusCall(errorId, [status |-> newStatus, resolvedBy |-> "System User",
                                 resolutionNotes |-> resolutionNotes])
    /\ IF errRes'.code = 200
       THEN views' = [views EXCEPT ![c].loading = TRUE,
                                   ![c].selectedError = NoSelection]
       ELSE UNCHANGED views
    /\ UNCHANGED exceptView

\* the check button of a row, rendered for a row displayed as UNRESOLVED
RowResolve(c, id) ==
    /\ ~views[c].loading
    /\ id \in DOMAIN views[c].data
    /\ views[c].data[id] = "UNRESOLVED"
    /\ handleStatusUpdate(c, id, "RESOLVED", "")

\* the two buttons of the modal, rendered when the selected error is
\* displayed as UNRESOLVED
ModalIgnore(c) ==
    /\ views[c].selectedError.status = "UNRESOLVED"
    /\ handleStatusUpdate(c, views[c].selectedError._id, "IGNORED",
                          "Marked as ignored by user")
ModalResolve(c) ==
    /\ views[c].selectedError.status = "UNRESOLVED"
    /\ handleStatusUpdate(c, views[c].selectedError._id, "RESOLVED",
                          "Resolved by user")

InitView == views = [c \in Clients |-> NewView]

(***************************************************************************)
(* frontend/src/components/UploadForm.jsx: the selected files              *)
(***************************************************************************)
MaxFiles == 3
MaxDrop == 2

\* file.name.toLowerCase().split('.').pop()
Extension(name) ==
    substring(toLowerCase(name), lastIndexOf(toLowerCase(name), ".") + 1)

\* the file type onDrop derives from the extension
FormFileType(name) ==
    CASE Extension(name) = <<"x","m","l">> -> "xml"
      [] Extension(name) = <<"j","s","o","n">> -> "json"
      [] Extension(name) \in {<<"x","l","s","x">>, <<"x","l","s">>} -> "excel"
      [] Extension(name) = <<"p","d","f">> -> "pdf"
      [] Extension(name) = <<"c","s","v">> -> "csv"
      [] OTHER -> "unknown"

\* acceptedFiles.map: the id is fileCounter plus a random fraction, written
\* as the counter and the place of the file in the drop
NewFiles(acceptedFiles) ==
    [i \in 1..Len(acceptedFiles) |->
        [id |-> <<fileCounter, i>>,
         name |-> acceptedFiles[i],
         fileType |-> FormFileType(acceptedFiles[i])]]

FileTypes(files) == {files[i].fileType : i \in DOMAIN files}

\* prev.filter(f => f.fileType is none of types)
WithoutTypes(prev, types) == SelectSeq(prev, LAMBDA f : f.fileType \notin types)

\* onDrop: the state updaters in the order they are queued. Every new file
\* whose type is selected already removes the selected file of that type;
\* the last updater removes the selected files of the new types and appends
\* all new files
onDrop(acceptedFiles) ==
    /\ fileCounter + Len(acceptedFiles) <= MaxFiles
    /\ LET newFiles == NewFiles(acceptedFiles)
           currentFileTypes == FileTypes(selectedFiles)
           filteredNewFiles == newFiles
           replaced == WithoutTypes(selectedFiles,
                                    FileTypes(newFiles) \cap currentFileTypes)
       IN  /\ selectedFiles' =
                 WithoutTypes(replaced, FileTypes(filteredNewFiles)) \o filteredNewFiles
           /\ fileCounter' = fileCounter + Len(filteredNewFiles)
    /\ UNCHANGED exceptForm

\* removeFile: the remove button of a selected file
removeFile(fileId) ==
    /\ \E i \in DOMAIN selectedFiles : selectedFiles[i].id = fileId
    /\ selectedFiles' = SelectSeq(selectedFiles, LAMBDA f : f.id # fileId)
    /\ UNCHANGED fileCounter
    /\ UNCHANGED exceptForm

\* clearAll: the clear button, shown while files are selected
clearAll ==
    /\ selectedFiles # <<>>
    /\ selectedFiles' = <<>>
    /\ UNCHANGED fileCounter
    /\ UNCHANGED exceptForm

\* the files a user drops: the dropzone accepts these extensions
DropNames == {<<"a",".","c","s","v">>, <<"b",".","C","S","V">>,
              <<"c",".","x","l","s">>, <<"d",".","x","l","s","x">>,
              <<"e",".","p","d","f">>}
Drops == {d \in SeqsUpTo(DropNames, MaxDrop) :
            Len(d) > 0 /\ \A i, j \in DOMAIN d : i # j => d[i] # d[j]}
FileIds == (0..MaxFiles) \X (1..MaxDrop)

InitForm ==
    /\ selectedFiles = <<>>
    /\ fileCounter = 0

(***************************************************************************)
(* backend/utils/exportUtils.js                                            *)
(***************************************************************************)
\* the values of a record: a string is a sequence of characters, an object
\* its entries in insertion order with distinct keys
JsNum(n) == [t |-> "num", n |-> n]
JsStr(chars) == [t |-> "str", s |-> chars]
JsNull == [t |-> "null"]
JsDate(iso) == [t |-> "date", iso |-> iso]
JsArr(items) == [t |-> "arr", items |-> items]
JsObj(entries) == [t |-> "obj", entries |-> entries]

isArray(v) == v.t = "arr"

\* new Date(...).toISOString(): 24 characters, or a RangeError for an invalid date
InvalidDate == <<"Invalid time value">>
IsoString == <<"2","0","2","4","-","0","1","-","0","2","T","0","3",":","0","4",":",
               "0","5",".","0","0","0","Z">>
ObjectObject == <<"[","o","b","j","e","c","t"," ","O","b","j","e","c","t","]">>

\* String(value) as Array.prototype.join applies it: null gives the empty
\* string inside a join, a nested array is joined with ","
RECURSIVE join(_, _)
JoinItem(v) ==
    CASE v.t = "num" -> <<Digits[v.n + 1]>>
      [] v.t = "str" -> v.s
      [] v.t = "null" -> <<>>
      [] v.t = "arr" -> join(v.items, <<",">>)
      [] v.t = "obj" -> ObjectObject

join(items, separator) ==
    IF Len(items) = 0 THEN <<>>
    ELSE IF Len(items) = 1 THEN JoinItem(items[1])
    ELSE JoinItem(items[1]) \o separator \o join(Tail(items), separator)

KeyIndex(entries, key) ==
    IF \E i \in DOMAIN entries : entries[i].key = key
    THEN CHOOSE i \in DOMAIN entries : entries[i].key = key
    ELSE 0

\* flattened[key] = value: an existing key keeps its place
Assign(entries, key, value) ==
    IF KeyIndex(entries, key) = 0
    THEN Append(entries, [key |-> key, value |-> value])
    ELSE [entries EXCEPT ![KeyIndex(entries, key)].value = value]

\* Object.assign(target, source)
RECURSIVE ObjectAssign(_, _)
ObjectAssign(target, source) ==
    IF source = <<>> THEN target
    ELSE ObjectAssign(Assign(target, source[1].key, source[1].value), Tail(source))

\* a date that toISOString() rejects anywhere in the value
RECURSIVE HasInvalidDate(_)
HasInvalidDate(v) ==
    CASE v.t = "date" -> v.iso = InvalidDate
      [] v.t = "obj" -> \E i \in DOMAIN v.entries : HasInvalidDate(v.entries[i].value)
      [] OTHER -> FALSE

\* flattenObject(obj, prefix) for an object whose dates are valid: the
\* entries of the flattened object; a record that is null has no key
RECURSIVE flattenEntries(_, _, _)
flattenEntries(entries, prefix, flattened) ==
    IF entries = <<>> THEN flattened
    ELSE
    LET key == entries[1].key
        value == entries[1].value
        newKey == IF prefix # <<>> THEN prefix \o <<".">> \o key ELSE key
        next == IF value.t = "obj"
                THEN ObjectAssign(flattened, flattenEntries(value.entries, newKey, <<>>))
                ELSE IF isArray(value)
                THEN Assign(flattened, newKey, JsStr(join(value.items, <<",", " ">>)))
                ELSE IF value.t = "date"
                THEN Assign(flattened, newKey, JsStr(value.iso))
                ELSE Assign(flattened, newKey, value)
    IN  flattenEntries(Tail(entries), prefix, next)

flattenObjectMutant(obj) ==
    IF obj.t = "obj" THEN obj.entries ELSE <<>>

flattenObject(obj) ==
    IF obj.t = "obj" THEN flattenEntries(obj.entries, <<>>, <<>>) ELSE <<>>

\* getAllFields: the keys of all rows, first seen first
RECURSIVE AddKeys(_, _)
AddKeys(fields, entries) ==
    IF entries = <<>> THEN fields
    ELSE AddKeys(IF \E i \in DOMAIN fields : fields[i] = entries[1].key THEN fields
                 ELSE Append(fields, entries[1].key),
                 Tail(entries))

RECURSIVE getAllFields(_)
getAllFields(data) ==
    IF data = <<>> THEN <<>>
    ELSE AddKeys(getAllFields(SubSeq(data, 1, Len(data) - 1)), data[Len(data)])

\* the length of cellValue.toString() for a truthy cell, 0 for a falsy one
CellLength(v) ==
    CASE v.t = "num" -> IF v.n = 0 THEN 0 ELSE 1
      [] v.t = "str" -> Len(v.s)
      [] OTHER -> 0

Max2(a, b) == IF a >= b THEN a ELSE b
Min2(a, b) == IF a <= b THEN a ELSE b

RECURSIVE MaxOver(_, _, _)
MaxOver(data, key, width) ==
    IF data = <<>> THEN width
    ELSE LET i == KeyIndex(data[1], key)
             len == IF i = 0 THEN 0 ELSE CellLength(data[1][i].value)
         IN  MaxOver(Tail(data), key, Max2(width, len))

MinColumnWidth == 10
MaxColumnWidth == 50

\* autoSizeColumns: one width per key of the first row
autoSizeColumns(data) ==
    IF data = <<>> THEN <<>>
    ELSE [c \in DOMAIN data[1] |->
            Min2(Max2(MaxOver(data, data[1][c].key, Len(data[1][c].key)) + 2,
                      MinColumnWidth),
                 MaxColumnWidth)]

ExportResult(data, extension, mimeType) ==
    [ok |-> TRUE, data |-> data, filename |-> <<"export", extension>>,
     mimeType |-> mimeType]
ExportError(prefix, message) == [ok |-> FALSE, message |-> <<prefix, message>>]

Flattened(records) == [i \in DOMAIN records |-> flattenObject(records[i])]
Worksheet(sheetName, flattenedData) ==
    [name |-> sheetName, rows |-> flattenedData, cols |-> autoSizeColumns(flattenedData)]
XlsxMime == "application/vnd.openxmlformats-officedocument.spreadsheetml.sheet"

exportToCSVMutant(data) ==
    IF ~isArray(data) THEN ExportError("CSV export failed: ", "No data to export")
    ELSE IF \E i \in DOMAIN data.items : HasInvalidDate(data.items[i])
    THEN ExportError("CSV export failed: ", "Invalid time value")
    ELSE LET flattenedData == Flattened(data.items)
         IN  ExportResult([fields |-> getAllFields(flattenedData), rows |-> flattenedData],
                          ".csv", "text/csv")

exportToCSV(data) ==
    IF ~isArray(data) \/ Len(data.items) = 0
    THEN ExportError("CSV export failed: ", "No data to export")
    ELSE IF \E i \in DOMAIN data.items : HasInvalidDate(data.items[i])
    THEN ExportError("CSV export failed: ", "Invalid time value")
    ELSE LET flattenedData == Flattened(data.items)
         IN  ExportResult([fields |-> getAllFields(flattenedData), rows |-> flattenedData],
                          ".csv", "text/csv")

exportToExcel(data, sheetName) ==
    IF ~isArray(data) \/ Len(data.items) = 0
    THEN ExportError("Excel export failed: ", "No data to export")
    ELSE IF \E i \in DOMAIN data.items : HasInvalidDate(data.items[i])
    THEN ExportError("Excel export failed: ", "Invalid time value")
    ELSE ExportResult(<<Worksheet(sheetName, Flattened(data.items))>>, ".xlsx", XlsxMime)

\* JSON.stringify keeps the records as they are: nothing is flattened
exportToJSON(data, pretty) ==
    IF ~isArray(data) THEN ExportError("JSON export failed: ", "Data must be an array")
    ELSE ExportResult([json |-> data.items, indent |-> IF pretty THEN 2 ELSE 0],
                      ".json", "application/json")

\* the sheets the forEach appends: a sheet whose data is empty or no array is skipped
RECURSIVE AppendSheets(_)
AppendSheets(sheets) ==
    IF sheets = <<>> THEN <<>>
    ELSE LET sheet == sheets[Len(sheets)]
             before == AppendSheets(SubSeq(sheets, 1, Len(sheets) - 1))
         IN  IF ~isArray(sheet.data) \/ Len(sheet.data.items) = 0 THEN before
             ELSE Append(before, Worksheet(sheet.sheetName, Flattened(sheet.data.items)))

\* XLSX.write of a workbook without a sheet throws or writes, by the library's version
exportMultipleSheetsToExcel(sheets, emptyWorkbookThrows) ==
    IF ~isArray(sheets)
    THEN ExportError("Multi-sheet Excel export failed: ", "sheets.forEach is not a function")
    ELSE IF \E i \in DOMAIN sheets.items :
               /\ isArray(sheets.items[i].data)
               /\ \E j \in DOMAIN sheets.items[i].data.items :
                     HasInvalidDate(sheets.items[i].data.items[j])
    THEN ExportError("Multi-sheet Excel export failed: ", "Invalid time value")
    ELSE IF AppendSheets(sheets.items) = <<>> /\ emptyWorkbookThrows
    THEN ExportError("Multi-sheet Excel export failed: ", "Workbook is empty")
    ELSE ExportResult(AppendSheets(sheets.items), ".xlsx", XlsxMime)

\* the records of the model: up to MaxKeys entries, nested MaxDepth deep
MaxKeys == 2
ExportKeys == <<<<"a">>, <<"b">>, <<"a", ".", "b">>, <<>>>>
ExportLeaves == {JsNum(1), JsNull, JsDate(IsoString), JsDate(InvalidDate),
                 JsArr(<<JsNum(1), JsNum(2)>>),
                 JsArr(<<JsNull, JsArr(<<JsNum(1), JsNum(2)>>)>>)}
\* the object whose keys are the chosen ExportKeys, in that order
EntriesOf(f) ==
    LET Chosen(k) == k \in DOMAIN f
        chosen == SelectSeq([k \in DOMAIN ExportKeys |-> k], Chosen)
    IN  [i \in DOMAIN chosen |-> [key |-> ExportKeys[chosen[i]], value |-> f[chosen[i]]]]
ObjectsOver(values, n) ==
    {JsObj(EntriesOf(f)) :
        f \in UNION {[K -> values] :
                        K \in {K \in SUBSET DOMAIN ExportKeys : Cardinality(K) <= n}}}
InnerObjects == ObjectsOver({JsNum(1), JsArr(<<JsNum(1), JsNum(2)>>)}, 1)
ExportRecords == ObjectsOver(ExportLeaves \cup InnerObjects, MaxKeys)

\* what a caller passes as data: a list of up to MaxExportRows records, or no list
MaxExportRows == 1
SampleRecords == {JsObj(<<>>),
                  JsObj(<<[key |-> <<"a">>, value |-> JsNum(1)]>>),
                  JsObj(<<[key |-> <<"b">>, value |-> JsStr(<<"x">>)],
                          [key |-> <<"a">>, value |-> JsNum(2)]>>)}
ExportData ==
    {JsNull, JsStr(<<"x">>), JsObj(<<>>)}
    \cup {JsArr(rows) : rows \in SeqsUpTo(SampleRecords, MaxExportRows)}
    \cup {JsArr(<<r>>) : r \in InnerObjects}
NestedData == {JsArr(<<r>>) : r \in ExportRecords}
ExportSheets ==
    {JsNull}
    \cup {JsArr(sheets) :
            sheets \in SeqsUpTo([data : {JsNull} \cup {JsArr(rows) :
                                            rows \in SeqsUpTo(SampleRecords, 1)},
                                 sheetName : {"Data"}], 2)}

ExportCall(operation, input, outcome) ==
    /\ exportReq.operation = "none"
    /\ exportReq' = [operation |-> operation, input |-> input]
    /\ exportRes' = outcome
    /\ UNCHANGED exceptExport

ExportCsv ==
    \E data \in ExportData \cup NestedData : ExportCall("csv", data, exportToCSV(data))
ExportExcel == \E data \in ExportData : ExportCall("excel", data, exportToExcel(data, "Data"))
ExportJson ==
    \E data \in ExportData, pretty \in BOOLEAN :
        ExportCall("json", data, exportToJSON(data, pretty))
ExportMultipleSheets ==
    \E sheets \in ExportSheets, emptyWorkbookThrows \in BOOLEAN :
        ExportCall("sheets", sheets, exportMultipleSheetsToExcel(sheets, emptyWorkbookThrows))

InitExport ==
    /\ exportReq = [operation |-> "none", input |-> JsNull]
    /\ exportRes = [ok |-> FALSE, message |-> <<>>]

(***************************************************************************)
(* backend/routes/upload.js: POST /api/upload/file                         *)
(***************************************************************************)
\* multer's fileFilter: isSupported without the fileType field of the request
fileFilter(f) == isSupported(f.mimetype, f.originalname, NoString)

\* the enums of the ErrorLog schema
errorTypeEnum == {"MISSING_FIELD", "INVALID_FORMAT", "DUPLICATE_RECORD",
                  "VALIDATION_ERROR", "PARSING_ERROR", "DATA_TYPE_ERROR",
                  "BUSINESS_RULE_ERROR"}
sourceFormatEnum == {"CSV", "Excel", "XML", "JSON", "PDF"}

\* result.errors.map of the handler: one ErrorLog document per error
ErrorLogDocument(error, res, f) ==
    [errorType |-> IF "type" \in DOMAIN error THEN error.type ELSE "PROCESSING_ERROR",
     errorMessage |-> IF "message" \in DOMAIN error THEN error.message
                      ELSE "Unknown error occurred",
     sourceFormat |-> IF Truthy(res.metadata.processor)
                      THEN Str(toUpperCase(res.metadata.processor)) ELSE "",
     sourceFile |-> f.originalname,
     processedBy |-> "ip"]

\* the schema validation of ErrorLog: enum members only
ErrorLogAccepts(doc) ==
    doc.errorType \in errorTypeEnum /\ doc.sourceFormat \in sourceFormatEnum

\* result.data.map of the handler: one ProcessedData document per record (the
\* sanitized record itself is left out, its field names are kept)
DocumentToInsert(dataItem, res, f) ==
    [metadata |->
        [originalFileName |-> f.originalname,
         fileType |-> res.metadata.detectedType,
         mimeType |-> f.mimetype,
         fileSize |-> f.size,
         processor |-> res.metadata.processor,
         recordCount |-> 1,
         extractedFields |-> DOMAIN dataItem]]

NoResponse == [status |-> 0]

\* the schema validation of ProcessedData: the required strings are not
\* empty, fileType is an enum member
fileTypeEnum == CanonicalLabels \cup {<<"j","s","o","n">>, Label("unknown")}
ProcessedDataAccepts(doc) ==
    /\ Truthy(doc.metadata.originalFileName)
    /\ doc.metadata.fileType \in fileTypeEnum
    /\ doc.metadata.mimeType \notin {NULL, ""}
    /\ Truthy(doc.metadata.processor)

SaveDataMutant(res, f, outcome, failed) ==
    LET documentsToInsert == [i \in 1..Len(res.data) |->
                                 DocumentToInsert(res.data[i], res, f)]
        n == Len(res.data)
    IN  IF n = 0
        THEN [stored |-> <<>>, successCount |-> 0, errorCount |-> 0,
              responseErrors |-> <<"NO_DATA_EXTRACTED">>]
        ELSE IF outcome = "inserted"
        THEN [stored |-> SelectSeq(documentsToInsert, ProcessedDataAccepts),
              successCount |-> n, errorCount |-> 0, responseErrors |-> <<>>]
        ELSE IF outcome = "writeErrors"
        THEN [stored |-> SubSeq(documentsToInsert, 1, n - failed),
              successCount |-> n, errorCount |-> failed,
              responseErrors |-> <<"DATABASE_ERRORS">>]
        ELSE [stored |-> <<>>, successCount |-> 0, errorCount |-> n,
              responseErrors |-> <<"DATABASE_ERROR">>]

\* the block that saves result.data. insertMany (ordered: false, rawResult)
\* resolves with insertedCount, the number of documents the schema accepted,
\* or rejects with writeErrors for the last `failed` documents, or rejects
\* without them; successCount = insertResult.insertedCount || length
SaveData(res, f, outcome, failed) ==
    LET documentsToInsert == [i \in 1..Len(res.data) |->
                                 DocumentToInsert(res.data[i], res, f)]
        n == Len(res.data)
        accepted == SelectSeq(documentsToInsert, ProcessedDataAccepts)
        insertedCount == Len(accepted)
    IN  IF n = 0
        THEN [stored |-> <<>>, successCount |-> 0, errorCount |-> 0,
              responseErrors |-> <<"NO_DATA_EXTRACTED">>]
        ELSE IF outcome = "inserted"
        THEN [stored |-> accepted,
              successCount |-> IF insertedCount # 0 THEN insertedCount ELSE n,
              errorCount |-> 0, responseErrors |-> <<>>]
        ELSE IF outcome = "writeErrors"
        THEN [stored |-> SubSeq(documentsToInsert, 1, n - failed),
              successCount |-> n - failed, errorCount |-> failed,
              responseErrors |-> <<"DATABASE_ERRORS">>]
        ELSE [stored |-> <<>>, successCount |-> 0, errorCount |-> n,
              responseErrors |-> <<"DATABASE_ERROR">>]

\* the block that saves result.errors: the documents the schema accepts are
\* stored when insertMany resolves; a rejection is logged and swallowed
SaveErrors(res, f, inserted) ==
    LET errorLogDocs == [i \in 1..Len(res.errors) |->
                            ErrorLogDocument(res.errors[i], res, f)]
    IN  IF Len(res.errors) = 0 \/ ~inserted
        THEN [stored |-> <<>>, errorCount |-> 0]
        ELSE [stored |-> SelectSeq(errorLogDocs, ErrorLogAccepts),
              errorCount |-> Len(res.errors)]

FailureResponse ==
    [status |-> 500, success |-> FALSE, message |-> <<"File processing failed">>]

SummaryResponseMutant(res, f, saved, logged) ==
    IF Len(res.errors) > 0 /\ logged.errorCount = 0 THEN FailureResponse
    ELSE [status |-> 200,
          success |-> res.success,
          summary |-> [fileName |-> f.originalname,
                       processor |-> res.metadata.processor,
                       totalRecords |-> Len(res.data) + Len(res.errors),
                       successfulInserts |-> saved.successCount,
                       failedRecords |-> saved.errorCount + logged.errorCount],
          errors |-> saved.responseErrors]

SummaryResponse(res, f, saved, logged) ==
    [status |-> 200,
     success |-> res.success,
     summary |-> [fileName |-> f.originalname,
                  fileType |-> f.mimetype,
                  fileSize |-> f.size,
                  processor |-> res.metadata.processor,
                  totalRecords |-> Len(res.data) + Len(res.errors),
                  successfulInserts |-> saved.successCount,
                  failedRecords |-> saved.errorCount + logged.errorCount],
     errors |-> saved.responseErrors]

\* the request up to the await of processFile: multer filters the file part
\* and writes it to uploads/, the handler checks the fileType field
UploadFile(f, fileType) ==
    /\ upPc = "idle"
    /\ upReq' = [file |-> f, fileType |-> fileType]
    /\ UNCHANGED <<dataStore, logStore, dbOutcome>>
    /\ UNCHANGED exceptUpload
    /\ IF ~fileFilter(f)
       THEN /\ upPc' = "responded"
            /\ upRes' = [status |-> 500,
                         message |-> <<"Unsupported file format: ", f.mimetype>>]
            /\ UNCHANGED <<tempFile, dispatchVars>>
       ELSE IF Truthy(fileType) /\ ~isSupported(NULL, NoString, fileType)
       THEN /\ upPc' = "responded"
            /\ tempFile' = TRUE
            /\ upRes' = [status |-> 400, success |-> FALSE,
                         message |-> <<"Unsupported file type: ", fileType>>]
            /\ UNCHANGED dispatchVars
       ELSE /\ upPc' = "awaiting"
            /\ tempFile' = TRUE
            /\ ProcessFileStart(f, [specifiedFileType |-> fileType])
            /\ UNCHANGED upRes

\* a request without a file part
UploadNothing(fileType) ==
    /\ upPc = "idle"
    /\ upPc' = "responded"
    /\ upReq' = [file |-> NoFile, fileType |-> fileType]
    /\ upRes' = [status |-> 400, success |-> FALSE, message |-> <<"No file uploaded">>]
    /\ UNCHANGED <<tempFile, dataStore, logStore, dbOutcome, dispatchVars>>
    /\ UNCHANGED exceptUpload

\* what ProcessedData.insertMany can do with n documents
SaveOutcomes(n) ==
    IF n = 0 THEN {[kind |-> "inserted", failed |-> 0]}
    ELSE {[kind |-> "inserted", failed |-> 0], [kind |-> "error", failed |-> n]}
         \cup {[kind |-> "writeErrors", failed |-> k] : k \in 1..n}

\* the handler from the settling of processFile to the response: the try
\* block after the await, or the catch block when processFile threw
UploadRespond ==
    /\ upPc = "awaiting"
    /\ pc \in {"returned", "thrown"}
    /\ upPc' = "responded"
    /\ tempFile' = FALSE
    /\ IF pc = "thrown"
       THEN /\ upRes' = FailureResponse
            /\ UNCHANGED <<dataStore, logStore, dbOutcome>>
       ELSE \E outcome \in SaveOutcomes(Len(envelope.data)), inserted \in BOOLEAN :
               \E saved \in {SaveData(envelope, upReq.file, outcome.kind, outcome.failed)},
                  logged \in {SaveErrors(envelope, upReq.file, inserted)} :
                  /\ dbOutcome' = [data |-> outcome.kind, logsInserted |-> inserted]
                  /\ dataStore' = dataStore \o saved.stored
                  /\ logStore' = logStore \o logged.stored
                  /\ upRes' = SummaryResponse(envelope, upReq.file, saved, logged)
    /\ UNCHANGED <<upReq, dispatchVars>>
    /\ UNCHANGED exceptUpload

\* the requests of the model: multer's disk storage sets path
UploadMimes == {"text/csv", "application/pdf", "application/octet-stream"}
UploadNames == {<<"a",".","c","s","v">>, <<"c",".","x","l","s">>, <<"d","a","t","a">>}
UploadFiles == {f \in Files : f.hasPath /\ f.mimetype \in UploadMimes
                                /\ f.originalname \in UploadNames}
UploadTypes == {NoString} \cup CanonicalLabels
               \cup {<<"E","x","c","e","l">>, <<"j","s","o","n">>}

InitUpload ==
    /\ upPc = "idle"
    /\ upReq = [file |-> NoFile, fileType |-> NoString]
    /\ tempFile = FALSE
    /\ dataStore = <<>>
    /\ logStore = <<>>
    /\ dbOutcome = [data |-> "none", logsInserted |-> FALSE]
    /\ upRes = NoResponse

(***************************************************************************)
(* executePythonScript of csvProcessor.js and xmlProcessor.js, event by    *)
(* event                                                                   *)
(***************************************************************************)
Pending == [state |-> "pending"]

\* resolve and reject: only a pending promise changes its state
Resolve(p, value) ==
    IF p.state = "pending" THEN [state |-> "fulfilled", value |-> value] ELSE p
Reject(p, message) ==
    IF p.state = "pending" THEN [state |-> "rejected", message |-> message] ELSE p

\* JSON.parse on the texts the chunks of the model can make up
JSONparse(text) ==
    CASE text = "{}" ->
            [ok |-> TRUE,
             value |-> [kind |-> "object", processedData |-> <<>>, errorLogs |-> <<>>]]
      [] text = "{\"processedData\":[{\"name\":\"Ann\"}]}" ->
            [ok |-> TRUE,
             value |-> [kind |-> "object", processedData |-> <<[name |-> "str:Ann"]>>,
                        errorLogs |-> <<>>]]
      [] text = "null" -> [ok |-> TRUE, value |-> [kind |-> "null"]]
      [] OTHER -> [ok |-> FALSE]

stdoutDataMutant(buffer, data) == data \o buffer

\* pythonProcess.stdout.on('data'): stdout += data.toString()
stdoutData(buffer, data) == buffer \o data

onCloseMutant(p, code, buffer) ==
    IF code # 0 THEN p
    ELSE IF JSONparse(buffer).ok THEN Resolve(p, JSONparse(buffer).value)
    ELSE Reject(p, "Failed to parse Python output as JSON")

\* pythonProcess.on('close')
onClose(p, code, buffer) ==
    IF code # 0 THEN Reject(p, "Python script failed with code")
    ELSE IF JSONparse(buffer).ok THEN Resolve(p, JSONparse(buffer).value)
    ELSE Reject(p, "Failed to parse Python output as JSON")

\* pythonProcess.on('error')
onError(p) == Reject(p, "Failed to start Python process")

Changes(p, q) == IF p = q THEN 0 ELSE 1

\* the chunks of the model and the uploads the two script processors get
MaxChunks == 2
Chunks == {"{", "}", "null", "{\"processedData\":", "[{\"name\":\"Ann\"}]}"}
ExitCodes == {0, 1, -1}
ScriptFiles == {f \in UploadFiles : f.originalname = <<"a",".","c","s","v">>}
ScriptTypes == {NoString, <<"x","m","l">>}

\* spawn('python', [scriptPath, file.path]) in the promise executor
ScriptSpawn ==
    /\ pc = "processing"
    /\ processor \in {csvProcessor, xmlProcessor}
    /\ child = "none"
    /\ child' = "running"
    /\ UNCHANGED <<chunks, stdout, errored, exitCode, promise, settles>>
    /\ UNCHANGED exceptScript

\* a data event of the child's stdout
StdoutData(data) ==
    /\ child = "running"
    /\ Len(chunks) < MaxChunks
    /\ chunks' = Append(chunks, data)
    /\ stdout' = stdoutData(stdout, data)
    /\ UNCHANGED <<child, errored, exitCode, promise, settles>>
    /\ UNCHANGED exceptScript

\* the error event of the child
ChildError ==
    /\ child = "running"
    /\ ~errored
    /\ errored' = TRUE
    /\ promise' = onError(promise)
    /\ settles' = settles + Changes(promise, promise')
    /\ UNCHANGED <<child, chunks, stdout, exitCode>>
    /\ UNCHANGED exceptScript

\* the close event of the child, after its streams ended; -1 stands for the
\* null code of a child ended by a signal
ChildClose(code) ==
    /\ child = "running"
    /\ child' = "closed"
    /\ exitCode' = code
    /\ promise' = onClose(promise, code, stdout)
    /\ settles' = settles + Changes(promise, promise')
    /\ UNCHANGED <<chunks, stdout, errored>>
    /\ UNCHANGED exceptScript

\* what the await of executePythonScript gives process(file, metadata)
Awaited(p) ==
    IF p.state = "rejected" THEN [rejected |-> TRUE, message |-> p.message]
    ELSE [rejected |-> FALSE, value |-> p.value]

\* process(file, metadata) goes on once the promise is settled, and
\* processFile returns the envelope
ScriptSettled ==
    /\ pc = "processing"
    /\ promise.state # "pending"
    /\ \E outcome \in {IF processor = csvProcessor
                       THEN CsvSettled(file, Awaited(promise))
                       ELSE XmlSettled(file, Awaited(promise))} :
          Settle(processor, [kind |-> "script", text |-> stdout], outcome)

InitScript ==
    /\ child = "none"
    /\ chunks = <<>>
    /\ stdout = ""
    /\ errored = FALSE
    /\ exitCode = -2
    /\ promise = Pending
    /\ settles = 0

(***************************************************************************)
(* Specifications                                                          *)
(***************************************************************************)
Init ==
    /\ InitDispatch /\ InitErrors /\ InitPage /\ InitExport /\ InitUpload /\ InitScript
    /\ InitList /\ InitView /\ InitForm

\* one call of processFile
Next ==
    \/ \E f \in Files, o \in Options : ProcessFileCall(f, o)
    \/ RunCsv
    \/ RunXml
    \/ RunExcel
    \/ RunPdf
    \/ RunImage

Spec == Init /\ [][Next]_vars

\* the error-log collection under inserts and status updates
NextErrors ==
    \/ InsertErrorLog
    \/ \E id \in RequestIds, body \in RequestBodies : PatchStatus(id, body)

SpecErrors == Init /\ [][NextErrors]_vars

\* one request to a query endpoint
NextPage ==
    \/ GetCustomers
    \/ GetErrors

SpecPage == Init /\ [][NextPage]_vars

\* one list request at a time beside the inserts of an upload
NextList ==
    \/ ListCustomers
    \/ ListErrors
    \/ ListFind
    \/ ListCount
    \/ ListRespond
    \/ \E endpoint \in Endpoints : UploadInserts(endpoint)

SpecList == Init /\ [][NextList]_vars

\* the clients of the ErrorLogs view beside the uploads that log errors
NextView ==
    \/ InsertErrorLog
    \/ \E c \in Clients : fetchErrors(c)
    \/ \E c \in Clients, id \in 1..MaxLogs : SelectError(c, id)
    \/ \E c \in Clients, id \in 1..MaxLogs : RowResolve(c, id)
    \/ \E c \in Clients : ModalIgnore(c)
    \/ \E c \in Clients : ModalResolve(c)

SpecView == Init /\ [][NextView]_vars

\* the upload form: drops, removals and clear-all
NextForm ==
    \/ \E acceptedFiles \in Drops : onDrop(acceptedFiles)
    \/ \E fileId \in FileIds : removeFile(fileId)
    \/ clearAll

SpecForm == Init /\ [][NextForm]_vars

\* one call of an export operation
NextExport ==
    \/ ExportCsv
    \/ ExportExcel
    \/ ExportJson
    \/ ExportMultipleSheets

SpecExport == Init /\ [][NextExport]_vars

\* one request to POST /api/upload/file
NextUpload ==
    \/ \E f \in UploadFiles, fileType \in UploadTypes : UploadFile(f, fileType)
    \/ \E fileType \in UploadTypes : UploadNothing(fileType)
    \/ RunCsv
    \/ RunXml
    \/ RunExcel
    \/ RunPdf
    \/ RunImage
    \/ UploadRespond

SpecUpload == Init /\ [][NextUpload]_vars

\* one upload that the CSV or the XML processor handles, with the events of
\* the python process
NextScript ==
    \/ \E f \in ScriptFiles, fileType \in ScriptTypes : UploadFile(f, fileType)
    \/ ScriptSpawn
    \/ \E data \in Chunks : StdoutData(data)
    \/ ChildError
    \/ \E code \in ExitCodes : ChildClose(code)
    \/ ScriptSettled
    \/ UploadRespond

SpecScript == Init /\ [][NextScript]_vars

\* the event loop runs what is ready: the spawn, the continuation of a
\* settled await, the rest of the handler; nothing makes the child emit events
SpecScriptFair ==
    SpecScript /\ WF_vars(ScriptSpawn) /\ WF_vars(ScriptSettled) /\ WF_vars(UploadRespond)

(***************************************************************************)
(* Properties of the dispatcher (Spec)                                     *)
(***************************************************************************)
Called == pc # "idle"
HasReturned == pc = "returned"

\* the processor each canonical label names
NamedProcessor(label) ==
    CASE label = <<"c","s","v">> -> "csvProcessor"
      [] label = <<"e","x","c","e","l">> -> "excelProcessor"
      [] label = <<"x","m","l">> -> "xmlProcessor"
      [] label = <<"p","d","f">> -> "pdfProcessor"
      [] label = <<"i","m","a","g","e">> -> "imageProcessor"

IsCanonical(specifiedType) ==
    toLowerCase(specifiedType) \in
        {<<"c","s","v">>, <<"e","x","c","e","l">>, <<"x","m","l">>, <<"p","d","f">>,
         <<"i","m","a","g","e">>}

\* C1: whatever the MIME type and the filename of the upload, a specified
\* type that is one of csv, excel, xml, pdf, image in any letter case selects
\* the processor that label names.
C1_SpecifiedTypeWins ==
    (Called /\ IsCanonical(options.specifiedFileType))
        => processor = NamedProcessor(toLowerCase(options.specifiedFileType))

\* a PDF upload named b.PDF sent with the specified type CSV goes to the CSV processor
C1_Witness ==
    /\ Called
    /\ file.mimetype = "application/pdf"
    /\ file.originalname = <<"b",".","P","D","F">>
    /\ options.specifiedFileType = <<"C","S","V">>
    /\ processor = csvProcessor

\* C2: without a specified type, a MIME type of the table selects the
\* table's processor whatever the extension says; the extension decides only
\* when the MIME type is not in the table.
C2_MimeBeforeExtension ==
    (Called /\ ~Truthy(options.specifiedFileType))
        => IF file.mimetype \in DOMAIN SUPPORTED_FORMATS
           THEN processor = SUPPORTED_FORMATS[file.mimetype]
           ELSE \/ processor = NULL
                \/ \E ext \in DOMAIN EXTENSION_MAP :
                      /\ Len(file.originalname) > Len(ext)
                      /\ toLowerCase(SubSeq(file.originalname,
                                            Len(file.originalname) - Len(ext) + 1,
                                            Len(file.originalname))) = ext
                      /\ processor = SUPPORTED_FORMATS[EXTENSION_MAP[ext]]

\* text/csv with the name b.PDF, whose extension maps to the PDF processor
C2_Witness ==
    /\ Called
    /\ ~Truthy(options.specifiedFileType)
    /\ file.mimetype = "text/csv"
    /\ file.originalname = <<"b",".","P","D","F">>
    /\ processor = csvProcessor

EnvelopeFields == {"success", "data", "metadata", "errors"}

ProcessThrew == HasReturned /\ procError # <<>>

\* C4: when the processor's process throws, the envelope has success false,
\* an empty data array and exactly one error, of type processing_error with
\* the thrown message; nothing the processor had read appears in data.
C4_FailureEnvelope ==
    ProcessThrew =>
        /\ envelope.success = FALSE
        /\ envelope.data = <<>>
        /\ Len(envelope.errors) = 1
        /\ envelope.errors[1].type = "processing_error"
        /\ envelope.errors[1].message = procError

\* the CSV script printed a record and then exited with code 1
C4_Witness ==
    /\ ProcessThrew
    /\ invoked = csvProcessor
    /\ content.run.event = "close"
    /\ content.run.code = 1
    /\ content.run.stdout.kind = "object"
    /\ Len(content.run.stdout.processedData) > 0

Succeeded == HasReturned /\ procError = <<>>

\* the place of an item in its source: sheet and row, or index
DataPlaces ==
    {IF "_sheet" \in DOMAIN result.data[i]
     THEN <<result.data[i]._sheet, result.data[i]._row>>
     ELSE IF "_index" \in DOMAIN result.data[i] THEN <<result.data[i]._index>>
     ELSE <<"text">> : i \in DOMAIN result.data}
ErrorPlaces ==
    {IF "sheet" \in DOMAIN result.errors[i]
     THEN <<result.errors[i].sheet, result.errors[i].row>>
     ELSE <<result.errors[i].index>> : i \in DOMAIN result.errors}

NoItemInBoth ==
    /\ \A i \in DOMAIN result.data : \A j \in DOMAIN result.errors :
          result.data[i] # result.errors[j]
    /\ invoked \in {excelProcessor, pdfProcessor, imageProcessor}
          => DataPlaces \cap ErrorPlaces = {}

C6_ErrorsCarryTypeAndMessage ==
    HasReturned =>
        /\ \A i \in DOMAIN envelope.errors :
              {"type", "message"} \subseteq DOMAIN envelope.errors[i]
        /\ \A i \in DOMAIN result.errors :
              {"type", "message"} \subseteq DOMAIN result.errors[i]

(***************************************************************************)
(* Properties of the error-log status update (SpecErrors)                  *)
(***************************************************************************)
StatusEnum == {"UNRESOLVED", "RESOLVED", "IGNORED"}
Answered == errRes.code # 0

\* C7 as stated: a log whose status is no longer UNRESOLVED keeps that status
\* under every further request.
C7_NoChangeAfterLeaving ==
    [][\A id \in DOMAIN errorLogs :
          errorLogs[id].status # "UNRESOLVED"
              => errorLogs'[id].status = errorLogs[id].status]_vars

\* C8: a request whose status is not UNRESOLVED, RESOLVED or IGNORED is
\* answered 400 and leaves every stored log as it was; every stored log has a
\* status of the enumeration; an accepted RESOLVED sets resolvedAt to the
\* time of the request.
C8_RejectsInvalidStatus ==
    /\ \A id \in DOMAIN errorLogs : errorLogs[id].status \in StatusEnum
    /\ (Answered /\ errReq.body.status \notin StatusEnum) =>
          /\ errRes.code = 400
          /\ \A id \in DOMAIN errPrev : errorLogs[id] = errPrev[id]
    /\ (errRes.code = 200 /\ errReq.body.status = "RESOLVED") =>
          /\ errorLogs[errReq.id].status = "RESOLVED"
          /\ errorLogs[errReq.id].resolvedAt = clock
          /\ errorLogs[errReq.id].resolvedAt # NoDate

\* a resolved log, then a request with the status resolved in lower case
C8_Witness ==
    /\ errRes.code = 400
    /\ errReq.body.status = "resolved"
    /\ errReq.id \in DOMAIN errorLogs
    /\ errorLogs[errReq.id].status = "RESOLVED"
    /\ errorLogs[errReq.id].resolvedAt # NoDate

Supplied(v) == v \notin {NULL, ""}

\* C9 as stated: an accepted transition out of UNRESOLVED, to RESOLVED or to
\* IGNORED, records the resolver and the notes the request supplied.
C9_ResolverAndNotesRecorded ==
    (/\ errRes.code = 200
     /\ errPrev[errReq.id].status = "UNRESOLVED"
     /\ errReq.body.status \in {"RESOLVED", "IGNORED"}) =>
        /\ Supplied(errReq.body.resolvedBy)
              => errorLogs[errReq.id].resolvedBy = errReq.body.resolvedBy
        /\ Supplied(errReq.body.resolutionNotes)
              => errorLogs[errReq.id].resolutionNotes = errReq.body.resolutionNotes

(***************************************************************************)
(* Properties of the pagination (SpecPage)                                 *)
(***************************************************************************)
\* C10 as stated: whatever page and limit a request carries, the page size is
\* an integer from 1 to 100 and the page number an integer of at least 1.
C10_PageClamped ==
    pageReq.endpoint # "none" =>
        /\ ~pageRes.pageSize.nan
        /\ pageRes.pageSize.v \in 1..100
        /\ ~pageRes.pageNumber.nan
        /\ pageRes.pageNumber.v >= 1

(***************************************************************************)
(* Properties of the export operations (SpecExport)                        *)
(***************************************************************************)
Exported(operation) == exportReq.operation = operation
NoList(data) == ~isArray(data) \/ Len(data.items) = 0

\* the sheets of a multi-sheet call that hold at least one record
SheetsWithRecords ==
    IF isArray(exportReq.input)
    THEN SelectSeq(exportReq.input.items, LAMBDA sheet : ~NoList(sheet.data))
    ELSE <<>>

RECURSIVE LeavesOf(_, _)
LeavesOf(entries, path) ==
    IF entries = <<>> THEN <<>>
    ELSE (IF entries[1].value.t = "obj"
          THEN LeavesOf(entries[1].value.entries, Append(path, entries[1].key))
          ELSE <<[path |-> Append(path, entries[1].key), value |-> entries[1].value]>>)
         \o LeavesOf(Tail(entries), path)

RECURSIVE JoinPath(_)
JoinPath(path) ==
    IF Len(path) = 1 THEN path[1] ELSE path[1] \o <<".">> \o JoinPath(Tail(path))

Rendered(value) ==
    CASE value.t = "arr" -> JsStr(join(value.items, <<",", " ">>))
      [] value.t = "date" -> JsStr(value.iso)
      [] OTHER -> value

\* flat is the flattening of record that the claim describes
FlatMatches(record, flat) ==
    LET leaves == LeavesOf(record.entries, <<>>)
    IN  /\ Len(flat) = Len(leaves)
        /\ \A i \in DOMAIN leaves :
              \E j \in DOMAIN flat :
                 /\ flat[j].key = JoinPath(leaves[i].path)
                 /\ flat[j].value = Rendered(leaves[i].value)
        /\ \A j \in DOMAIN flat : flat[j].value.t \notin {"obj", "arr", "date"}

\* a CSV export of one record, whose row is the record flattened
FlattenedOne ==
    /\ Exported("csv")
    /\ isArray(exportReq.input)
    /\ Len(exportReq.input.items) = 1
    /\ exportReq.input.items[1].t = "obj"

RECURSIVE PlainKeys(_)
PlainKeys(v) ==
    v.t = "obj" =>
        \A i \in DOMAIN v.entries :
            /\ v.entries[i].key # <<>>
            /\ \A c \in DOMAIN v.entries[i].key : v.entries[i].key[c] # "."
            /\ PlainKeys(v.entries[i].value)

\* C12 as stated: every nested record flattens to one entry per leaf, keyed
\* by the leaf's path joined with '.', with lists joined by ', ' and dates as
\* ISO strings, and no nested value.
C12_FlattenEveryRecord ==
    FlattenedOne =>
        /\ exportRes.ok
        /\ FlatMatches(exportReq.input.items[1], exportRes.data.rows[1])

\* C12: a nested record whose keys are not empty and hold no '.', and whose
\* dates are valid, flattens to one entry per leaf, keyed by the leaf's path
\* joined with '.', with lists joined by ', ' and dates as ISO strings, and no
\* nested value; {a:{b:1}} gives {"a.b":1} and {a:[1,2]} gives {"a":"1, 2"}.
C12_FlattenPlainKeys ==
    (/\ FlattenedOne
     /\ PlainKeys(exportReq.input.items[1])
     /\ ~HasInvalidDate(exportReq.input.items[1])) =>
        /\ exportRes.ok
        /\ FlatMatches(exportReq.input.items[1], exportRes.data.rows[1])
        /\ exportReq.input.items[1] =
              JsObj(<<[key |-> <<"a">>, value |-> JsArr(<<JsNum(1), JsNum(2)>>)]>>)
              => exportRes.data.rows[1] =
                    <<[key |-> <<"a">>, value |-> JsStr(<<"1", ",", " ", "2">>)]>>

\* {a:{b:1}} flattened to {"a.b":1}
C12_Witness ==
    /\ FlattenedOne
    /\ exportReq.input.items[1] =
          JsObj(<<[key |-> <<"a">>,
                   value |-> JsObj(<<[key |-> <<"b">>, value |-> JsNum(1)]>>)]>>)
    /\ exportRes.ok
    /\ exportRes.data.rows[1] = <<[key |-> <<"a", ".", "b">>, value |-> JsNum(1)]>>

(***************************************************************************)
(* Properties of the PDF and the Excel processor (Spec)                    *)
(***************************************************************************)
\* the text of the two lines 'Name: John' and 'Age: 30'
NameAgeText ==
    <<"N","a","m","e",":"," ","J","o","h","n","\n","A","g","e",":"," ","3","0">>

\* C13 as stated: a PDF whose whole text is the lines 'Name: John' and
\* 'Age: 30' gives exactly one record, with name 'John' and age '30', and
\* no error.
C13_NameAgeOneRecord ==
    (/\ Succeeded
     /\ invoked = pdfProcessor
     /\ content.pdfData.text = NameAgeText) =>
        /\ Len(result.data) = 1
        /\ result.data[1].name = "John"
        /\ result.data[1].age = "30"
        /\ Len(result.errors) = 0

\* the data rows of the workbook the Excel processor read: sheet, row number
\* (the header is row 1) and cells
SheetRowsRead ==
    UNION {{[sheet |-> content.workbook.sheets[i].name, row |-> r,
             cells |-> content.workbook.sheets[i].jsonData[r]] :
               r \in 2..Len(content.workbook.sheets[i].jsonData)} :
           i \in DOMAIN content.workbook.sheets}
EmptyInSheet(cells) == \A col \in DOMAIN cells : cells[col] \in {"null", "str:", "undefined"}
ErrorsOfRow(r) ==
    {k \in DOMAIN result.errors :
        result.errors[k].sheet = r.sheet /\ result.errors[k].row = r.row}
RecordsOfRow(r) ==
    {k \in DOMAIN result.data :
        result.data[k]._sheet = r.sheet /\ result.data[k]._row = r.row}

\* C18 as stated: a data row is put into errors exactly when every field of
\* the row is null, empty or undefined in the sheet; every other row, also
\* one that holds only 0 or false, becomes a record; a rejected row gives
\* exactly one 'Empty row' error and no record.
C18_RejectedIffEmptyInSheet ==
    (Succeeded /\ invoked = excelProcessor) =>
        \A r \in SheetRowsRead :
            /\ ErrorsOfRow(r) # {} <=> EmptyInSheet(r.cells)
            /\ ~EmptyInSheet(r.cells) => Cardinality(RecordsOfRow(r)) = 1
            /\ EmptyInSheet(r.cells) =>
                  /\ Cardinality(ErrorsOfRow(r)) = 1
                  /\ RecordsOfRow(r) = {}
                  /\ \A k \in ErrorsOfRow(r) : result.errors[k].errors = <<"Empty row">>

(***************************************************************************)
(* Properties of POST /api/upload/file (SpecUpload)                        *)
(***************************************************************************)
Responded == upPc = "responded"
Summarised == Responded /\ upRes.status = 200

\* C14 as stated: an upload with one of the labels csv, excel, xml, pdf,
\* image is processed by the processor the label names, whatever its MIME
\* type and extension are.
C14_LabelSelectsProcessor ==
    (Responded /\ upReq.file # NoFile /\ upReq.fileType \in CanonicalLabels) =>
        invoked = SpecifiedProcessor(upReq.fileType)

\* the ErrorLog documents the handler builds from the envelope's errors
ErrorLogDocuments ==
    [i \in 1..Len(envelope.errors) |->
        ErrorLogDocument(envelope.errors[i], envelope, upReq.file)]

\* C15 as stated: every entry of the envelope's errors becomes an error-log
\* record whose errorType and sourceFormat are members of the schema's
\* enums, so the store accepts it: once the bulk insert went through, the
\* store holds one record per entry.
C15_ErrorLogsAccepted ==
    (Summarised /\ dbOutcome.logsInserted) =>
        /\ \A i \in 1..Len(envelope.errors) : ErrorLogAccepts(ErrorLogDocuments[i])
        /\ Len(logStore) = Len(envelope.errors)

LogInsertFailed == Responded /\ pc = "returned" /\ Len(envelope.errors) > 0
                   /\ ~dbOutcome.logsInserted

\* C16: when the bulk insert of the error logs fails, the request is
\* answered with the 200 summary, the temp file is removed, and the
\* ProcessedData documents inserted before stay stored and counted.
C16_LogInsertFailureSwallowed ==
    LogInsertFailed =>
        /\ upRes.status = 200
        /\ "summary" \in DOMAIN upRes
        /\ ~tempFile
        /\ Len(dataStore) = upRes.summary.successfulInserts
        /\ dbOutcome.data = "inserted" => Len(dataStore) = Len(envelope.data)

\* records were inserted, then the insert of the error logs failed
C16_Witness ==
    /\ LogInsertFailed
    /\ dbOutcome.data = "inserted"
    /\ Len(dataStore) > 0
    /\ upRes.status = 200

\* C17 as stated: when the response is sent, the temp file of the request
\* does not exist, on every path of the handler.
C17_TempFileRemoved == Responded => ~tempFile

\* C25: for every outcome of the bulk insert of the records (all inserted,
\* some rejected, none inserted) successfulInserts of the response is the
\* number of records the store inserted.
C25_SuccessfulInsertsAreStored ==
    Summarised => upRes.summary.successfulInserts = Len(dataStore)

\* two records were extracted; the store rejected one of them
C25_Witness ==
    /\ Summarised
    /\ dbOutcome.data = "writeErrors"
    /\ Len(envelope.data) = 2
    /\ Len(dataStore) = 1
    /\ upRes.summary.successfulInserts = 1

\* C26: in every response summary successfulInserts + failedRecords equals
\* totalRecords, the number of extracted records plus the number of
\* processing errors, whether or not the two inserts succeeded.
C26_CountsAddUp ==
    Summarised =>
        /\ upRes.summary.totalRecords = Len(envelope.data) + Len(envelope.errors)
        /\ upRes.summary.successfulInserts + upRes.summary.failedRecords
              = upRes.summary.totalRecords

(***************************************************************************)
(* Properties of executePythonScript (SpecScript, SpecScriptFair)          *)
(***************************************************************************)
Settled == promise.state # "pending"
ChildEnded == errored \/ child = "closed"

\* the stdout chunks concatenated in the order of their arrival
RECURSIVE JoinChunks(_)
JoinChunks(seq) == IF seq = <<>> THEN "" ELSE seq[1] \o JoinChunks(Tail(seq))
ArrivedJson == JSONparse(JoinChunks(chunks))

\* C19: in every order of data, error and close events the promise settles
\* at most once, and exactly once when the child has emitted error or
\* close; it is fulfilled only after a close with code 0 whose chunks,
\* joined in arrival order, parse as JSON, and with that JSON value; after
\* an error event, a close with another or no code, or unparseable output
\* it is rejected, and processFile then returns a failure envelope.
C19_SettlesOnceResolvesOnCleanExit ==
    /\ settles <= 1
    /\ ChildEnded => settles = 1 /\ Settled
    /\ promise.state = "fulfilled" =>
          /\ child = "closed" /\ exitCode = 0 /\ ~errored
          /\ ArrivedJson.ok
          /\ promise.value = ArrivedJson.value
    /\ (errored \/ (child = "closed" /\ (exitCode # 0 \/ ~ArrivedJson.ok))) =>
          promise.state = "rejected"
    /\ (HasReturned /\ promise.state = "rejected") =>
          /\ ~envelope.success
          /\ envelope.data = <<>>
          /\ Len(envelope.errors) = 1
          /\ envelope.errors[1].type = "processing_error"

\* the JSON object arrives in two chunks, the child exits with code 0, and
\* the upload is processed
C19_Witness ==
    /\ chunks = <<"{\"processedData\":", "[{\"name\":\"Ann\"}]}">>
    /\ child = "closed" /\ exitCode = 0
    /\ promise.state = "fulfilled"
    /\ HasReturned
    /\ envelope.success
    /\ Len(envelope.data) = 1

ItemFields(record) ==
    [k \in DOMAIN record \ {"_id", "_processedAt", "_index"} |-> record[k]]
ItemAt(index) ==
    IF \E i \in 1..Len(result.data) : result.data[i]._index = index
    THEN ItemFields(result.data[CHOOSE i \in 1..Len(result.data) :
                                       result.data[i]._index = index])
    ELSE result.errors[CHOOSE i \in 1..Len(result.errors) :
                           result.errors[i].index = index].data
ExtractedItems ==
    [i \in 1..(Len(result.data) + Len(result.errors)) |-> ItemAt(i - 1)]
PdfText == content.pdfData.text
ThreeExtractors ==
    extractTableData(PdfText) \o extractKeyValuePairs(PdfText) \o extractFormData(PdfText)
FullTextRecord ==
    [content |-> Str(PdfText), type |-> "full_text", pages |-> content.pdfData.numpages]

\* C21: the items of a PDF are the table records, then the key-value
\* record, then the form record, in that order and with duplicates kept;
\* the one full-text record (text and page count) is the result exactly
\* when the three extractors found nothing.
C21_ExtractorsInOrderOrFullText ==
    (Succeeded /\ invoked = pdfProcessor) =>
        /\ ThreeExtractors # <<>> => ExtractedItems = ThreeExtractors
        /\ ThreeExtractors = <<>> => ExtractedItems = <<FullTextRecord>>
        /\ (\E i \in 1..Len(ExtractedItems) : ExtractedItems[i] = FullTextRecord)
              <=> ThreeExtractors = <<>>

\* 'Age: 30' gives the same record {age: '30'} twice, from the key-value
\* and from the form extractor
C21_Witness ==
    /\ Succeeded
    /\ invoked = pdfProcessor
    /\ Len(ExtractedItems) = 2
    /\ ExtractedItems[1] = ExtractedItems[2]
    /\ ExtractedItems[1] = extractKeyValuePairs(PdfText)[1]

(***************************************************************************)
(* Properties of the image processor (Spec)                                *)
(***************************************************************************)
OcrText == content.ocr.text
NoStructuredData == extractDataFromOCR(content.ocr) = <<>>
OcrTextRecords ==
    SelectSeq(result.data, LAMBDA record :
        /\ "type" \in DOMAIN record
        /\ record.type = "ocr_text")

\* C22: whenever the image processor finds no structured data in the OCR
\* text, for every OCR text including an empty or whitespace-only one, the
\* result holds exactly one record of type 'ocr_text' with the raw OCR text
\* and the confidence.
C22_OcrTextRecordWhenNothingFound ==
    (Succeeded /\ invoked = imageProcessor /\ NoStructuredData) =>
        /\ Len(result.data) = 1
        /\ Len(OcrTextRecords) = 1
        /\ OcrTextRecords[1].content = Str(OcrText)
        /\ OcrTextRecords[1].confidence = content.ocr.confidence

(***************************************************************************)
(* Properties of the processing metadata (Spec)                            *)
(***************************************************************************)
DispatcherFields ==
    {"originalName", "mimeType", "size", "processedAt", "processor",
     "specifiedType", "detectedType"}

\* C23: in every success envelope each field the dispatcher built into the
\* processing metadata keeps the value the dispatcher gave it; the
\* processor's metadata adds fields and overwrites none of them.
C23_DispatcherFieldsKept ==
    Succeeded =>
        \A field \in DispatcherFields :
            envelope.metadata[field] = metadata[field]

\* C24: in the metadata the dispatcher builds for a call that reaches a
\* processor (success and failure envelopes), processor is the canonical
\* format identifier of the processor whose process method was invoked,
\* whatever specifiedFileType is: absent, canonical, differently cased, or
\* unrecognised with a supported MIME type.
C24_ProcessorIsCanonicalIdentifier ==
    HasReturned =>
        /\ metadata.processor \in CanonicalLabels
        /\ NamedProcessor(metadata.processor) = invoked

(***************************************************************************)
(* Properties of the resolution fields of an error log (SpecErrors)        *)
(***************************************************************************)
\* C27: after any sequence of status updates an error log carries a
\* resolvedAt timestamp and a resolvedBy identity only while its status is
\* RESOLVED; with status UNRESOLVED or IGNORED it carries neither.
C27_ResolutionFieldsOnlyWhileResolved ==
    \A id \in DOMAIN errorLogs :
        errorLogs[id].status # "RESOLVED" =>
            /\ errorLogs[id].resolvedAt = NoDate
            /\ errorLogs[id].resolvedBy = NULL

(***************************************************************************)
(* Properties of the list endpoints beside an upload (SpecList)            *)
(***************************************************************************)
ListResponded == listing.pc = "responded"
Smaller(a, b) == IF a < b THEN a ELSE b
Larger(a, b) == IF a > b THEN a ELSE b

\* C28: the page and the totalRecords of one list response describe the
\* same state of the store, also when an upload inserts while the request
\* runs: the page holds min(pageSize, max(0, totalRecords - skip)) records
\* and hasNextPage is true exactly when records exist past the page.
C28_PageAndTotalAgree ==
    ListResponded =>
        /\ Len(listing.data) =
              Smaller(listing.pageSize, Larger(0, listing.totalRecords - listing.skip))
        /\ listing.hasNextPage <=>
              listing.totalRecords > listing.skip + Len(listing.data)

(***************************************************************************)
(* Properties of the ErrorLogs view (SpecView)                             *)
(***************************************************************************)
Closed(doc) == doc.status \in {"RESOLVED", "IGNORED"}

\* C29: when status changes are issued only through the ErrorLogs view,
\* which offers resolve and ignore only for an entry it displays as
\* UNRESOLVED, an error log whose stored status is RESOLVED or IGNORED is
\* never changed again, also when several clients act on lists they
\* fetched earlier.
C29_ClosedLogNeverChanged ==
    [][\A id \in DOMAIN errorLogs :
          Closed(errorLogs[id]) => errorLogs'[id] = errorLogs[id]]_vars

(***************************************************************************)
(* Properties of the upload form (SpecForm)                                *)
(***************************************************************************)
\* C30: after any sequence of drops, removals and clear-all the selected
\* files hold at most one file per file type, also when one drop brings
\* several files of the same type.
C30_OneFilePerType ==
    \A i, j \in DOMAIN selectedFiles :
        selectedFiles[i].fileType = selectedFiles[j].fileType => i = j
====
